---- MODULE Spec2Model ----
(***************************************************************************)
(* copy-redis: the dispatch pipeline between the upstream replication feed *)
(* and the downstream workers.                                             *)
(*                                                                         *)
(*   supervisor (main.rs run)  --events-->  dispatcher (sharding.rs /      *)
(*   cluster.rs handle)  --mpsc channel-->  worker thread (worker.rs       *)
(*   new_worker / cluster.rs new_cluster)  --pipeline-->  target           *)
(*                                                                         *)
(* Time is counted in ticks of the worker's 10 ms recv_timeout.            *)
(***************************************************************************)
EXTENDS Integers, Sequences, FiniteSets, TLC

\* ------------------------------------------------------------------ bounds
\* Number of upstream events the replication feed delivers in a run.
MaxEvents == 3
\* Virtual nodes inserted per shard by new_sharded (the program inserts 160:
\* src/src/sharding.rs:226; the ring lookup does not depend on the count).
VNodes == 2
\* Number of events handled in a run of the dispatcher alone (SpecSharded).
MaxRouted == 1
\* Number of events delivered in a run with two shard workers (SpecFanout).
MaxFanout == 2
\* Number of events handled in a run of either routed dispatcher (SpecRouted).
MaxDispatched == 2
\* Number of multi-key events delivered to one worker (SpecBurst).
MaxBursts == 2

\* ---------------------------------------------------------- program constants
\* parse_args: the batch size when -p is absent or does not parse as i32.
DefaultBatchSize == 2500

\* ------------------------------------------------------------ small domains
ShardIds == {0, 1}
\* Positions on the hash ring: the range of murmur_hash64a, scaled down.
HashSpace == 0..2
Keys == {"k1", "k2"}
NoKey == "-"
\* flush_interval values (in ticks of 10 ms) the model is run with.
FlushIntervals == {0, 2}
\* -p arguments given to parse_args: present and parsing to `size', or absent.
BatchArgs ==
    {[present |-> TRUE, ok |-> TRUE, size |-> s] : s \in {-1, 0, 1, 2}}
        \cup {[present |-> FALSE, ok |-> FALSE, size |-> 0]}

Min(a, b) == IF a < b THEN a ELSE b

VARIABLES
    mode,            \* "sharding" | "cluster" (Opt.sharding / Opt.cluster), or
                     \* "standalone" (neither: handler.rs)
    targets,         \* number of target URIs (Opt.targets.len())
    batch_arg,       \* the -p argument as given on the command line
    batch_size,      \* Opt.batch_size
    flush_interval,  \* Opt.flush_interval, in ticks
    nodes,           \* ShardedEventHandler.nodes : ring position -> shard
    keyHash,         \* murmur_hash64a(key, SEED) for the routing keys
    spc,             \* position of run(): "config","build","loop" (line 76),
                     \* "pump","stopped","saved","dropped","returned";
                     \* "rejected" after the panic of line 55;
                     \* after a panic of the dispatcher: "aborted","unwinding","exited"
    repl_offset,     \* listener.config.repl_offset (events handled so far)
    checkpoint,      \* offset in the checkpoint file, -1 when there is none
    chan,            \* per worker: the mpsc channel's queued messages
    pipeline,        \* per worker: the running batch (redis::pipe())
    count,           \* per worker: count
    elapsed,         \* per worker: timer.elapsed(), capped at flush_interval
    shutdown,        \* per worker: shutdown
    wpc,             \* per worker: "recv" (loop top), "check" (line 71), "done",
                     \* "dead" (the thread panicked)
    sent,            \* history: the Cmd messages sent on the worker's channel, in order
    flushed,         \* history: the pipelines the worker executed
    lastRecv,        \* history: what the last pass over lines 55-70 did
    lastFlush,       \* history: what the last pass over lines 71-91 did
    lastEvent,       \* history: the event handled last
    before,          \* history: Len(sent[s]) when lastEvent was handed in
    meta_file,       \* contents of the checkpoint file .copy-redis/<hash>, or NoFile
    repl_id,         \* listener.config.repl_id
    lastSave,        \* history: what the last save_repl_meta was given and did
    running,         \* is_running, the shared control flag
    lastErr,         \* history: the last error handed to handle_error
    db,              \* EventHandlerImpl.db (standalone): the db tracked by handle_rdb
    conn,            \* per worker: the pool's one connection: whether it is
                     \* established, and the db it has selected
    intent,          \* per worker: db, the AtomicI64 read by on_acquire
    lastAcq,         \* history: what pool.get() did in the last pass over lines 71-91
    recvDb           \* history: per worker, the db-intent at the receipt of each batched request

vars == <<mode, targets, batch_arg, batch_size, flush_interval, nodes, keyHash,
          spc, repl_offset, checkpoint, chan, pipeline, count, elapsed,
          shutdown, wpc, sent, flushed, lastRecv, lastFlush, lastEvent, before,
          meta_file, repl_id, lastSave, running, lastErr, db,
          conn, intent, lastAcq, recvDb>>

cfgVars == <<mode, targets, batch_arg, batch_size, flush_interval, nodes, keyHash>>
procVars == <<meta_file, repl_id, lastSave, running, lastErr, db>>
poolVars == <<conn, lastAcq, recvDb>>
workerVars == <<pipeline, count, elapsed, shutdown, wpc, flushed, lastRecv, lastFlush>>

\* The shards (workers) that exist: new_sharded creates one per target,
\* new_cluster creates a single worker.
Active == IF mode = "cluster" THEN {0} ELSE 0..(targets - 1)

\* --------------------------------------------------------------- requests
\* redis::Cmd: a verb and its arguments.
Cmd(verb, args) == [verb |-> verb, args |-> args]
NoCmd == Cmd("", <<>>)

\* worker.rs Message.  n is the position of a Cmd in the worker's enqueue
\* stream and off the upstream offset of the event it came from (history).
MsgCmd(c, n, off) == [type |-> "Cmd", cmd |-> c, n |-> n, off |-> off]
MsgTerminate == [type |-> "Terminate", cmd |-> NoCmd, n |-> 0, off |-> 0]
MsgSwapDb(d) == [type |-> "SwapDb", cmd |-> NoCmd, n |-> 0, off |-> 0, db |-> d]

\* ------------------------------------------------------------- parse_args
\* main.rs parse_args, the -p / --batch-size option.
ParseBatchSizeNoClamp(a) ==
    IF a.present
    THEN IF a.ok THEN a.size ELSE DefaultBatchSize
    ELSE DefaultBatchSize

ParseBatchSize(a) ==
    IF a.present
    THEN IF a.ok
         THEN IF a.size > 0 THEN a.size ELSE -1
         ELSE DefaultBatchSize
    ELSE DefaultBatchSize

\* ------------------------------------------------------------ routing table
\* new_sharded: the inner loop `for n in 0..160' for shard i; BTreeMap::insert
\* replaces the value of a position that is already present.
RECURSIVE InsertNodesSharedNames(_, _, _, _)
InsertNodesSharedNames(vh, i, n, m) ==
    IF n = VNodes THEN m
    ELSE InsertNodesSharedNames(vh, i, n + 1,
            [h \in (DOMAIN m) \cup {vh[<<0, n>>]} |->
                IF h = vh[<<0, n>>] THEN i ELSE m[h]])

RECURSIVE InsertNodes(_, _, _, _)
InsertNodes(vh, i, n, m) ==
    IF n = VNodes THEN m
    ELSE InsertNodes(vh, i, n + 1,
            [h \in (DOMAIN m) \cup {vh[<<i, n>>]} |->
                IF h = vh[<<i, n>>] THEN i ELSE m[h]])

\* new_sharded: the outer loop over initial_nodes.
RECURSIVE NewShardedNodes(_, _, _, _)
NewShardedNodes(vh, i, n, m) ==
    IF i = n THEN m
    ELSE NewShardedNodes(vh, i + 1, n, InsertNodes(vh, i, 0, m))

VNodeNames(n) == {<<i, v>> : i \in 0..(n - 1), v \in 0..(VNodes - 1)}

\* get_shard: nodes.range(hash..).next(); None is -1.
NoShard == -1
GetShard(key) ==
    LET hash == keyHash[key]
        tail == {h \in DOMAIN nodes : h >= hash}
    IN  IF tail # {}
        THEN nodes[CHOOSE h \in tail : \A g \in tail : h <= g]
        ELSE NoShard

\* senders.values().next(): the sender with the least address "i-host:port".
FirstSender == CHOOSE s \in Active : \A t \in Active : s <= t

\* ------------------------------------------------------------------ events
\* redis_event::Event.  src is "RDB" (a snapshot object) or "AOF" (a command);
\* verb names the Object / Command variant; keys, vals and opt carry the
\* variant's typed fields.
\* A snapshot object also carries meta.db and, a Stream, its entry ids and
\* the names of its consumer groups.
Ev(src, verb, keys, vals, opt) ==
    [src |-> src, verb |-> verb, keys |-> keys, vals |-> vals, opt |-> opt,
     db |-> "0", entries |-> <<>>, groups |-> <<>>]
NoEvent == Ev("", "", <<>>, <<>>, "")
InDb(e, d) == [e EXCEPT !.db = d]
Stream(key, val, ttl, opt, entries, groups) ==
    [Ev("RDB", "Stream", <<key>>, <<val, ttl>>, opt)
        EXCEPT !.entries = entries, !.groups = groups]

\* Command variants ShardedEventHandler::handle and
\* ClusterEventHandlerImpl::handle drop.
DroppedVerbs ==
    {"BITOP", "EVAL", "EVALSHA", "MULTI", "EXEC", "PFMERGE", "SDIFFSTORE",
     "SINTERSTORE", "SUNIONSTORE", "ZUNIONSTORE", "ZINTERSTORE", "PUBLISH"}
\* Command variants expanded key by key, with the verb of the single requests.
ExpandKeyVerbs == {"DEL", "PFCOUNT", "UNLINK"}
ExpandPairVerbs == {"MSET", "MSETNX"}
PairVerb(v) == IF v = "MSET" THEN "SET" ELSE "SETNX"
BroadcastVerbs ==
    {"SELECT", "SCRIPTFLUSH", "SCRIPTLOAD", "SWAPDB", "FLUSHDB", "FLUSHALL"}

\* One call self.execute(cmd, key) of the converter, or one self.broadcast.
Call(cmd, key) == [bcast |-> FALSE, cmd |-> cmd, key |-> key]
Bcast(cmd) == [bcast |-> TRUE, cmd |-> cmd, key |-> NoKey]

\* CommandConverter::handle_expire.  opt is "" (no expiry), "S" or "MS"; the
\* timestamp is vals[2].
HandleExpireByTime(key, opt, ttl) ==
    IF opt = "S" THEN <<Call(Cmd("EXPIREAT", <<key, ttl>>), ttl)>>
    ELSE IF opt = "MS" THEN <<Call(Cmd("PEXPIREAT", <<key, ttl>>), ttl)>>
    ELSE <<>>

HandleExpire(key, opt, ttl) ==
    IF opt = "S" THEN <<Call(Cmd("EXPIREAT", <<key, ttl>>), key)>>
    ELSE IF opt = "MS" THEN <<Call(Cmd("PEXPIREAT", <<key, ttl>>), key)>>
    ELSE <<>>

\* The request a snapshot object of one of the five plain types is written
\* with: the verb, the key and the object's content (vals[1]); a sorted set
\* item has a score and a hash field a name.
PlainTypes == {"String", "List", "Set", "SortedSet", "Hash"}
PrimaryCmd(e) ==
    CASE e.verb = "String" -> Cmd("set", <<e.keys[1], e.vals[1]>>)
      [] e.verb = "List" -> Cmd("rpush", <<e.keys[1], e.vals[1]>>)
      [] e.verb = "Set" -> Cmd("sadd", <<e.keys[1], e.vals[1]>>)
      [] e.verb = "SortedSet" -> Cmd("zadd", <<e.keys[1], "1", e.vals[1]>>)
      [] e.verb = "Hash" -> Cmd("hmset", <<e.keys[1], "f", e.vals[1]>>)

\* handle_rdb, Object::Stream: one XADD per entry, then one XGROUP CREATE per
\* group, each routed by the stream's key.
XAdds(e) ==
    [i \in 1..Len(e.entries) |->
        Call(Cmd("XADD", <<e.keys[1], e.entries[i], "f", e.vals[1]>>), e.keys[1])]
XGroups(e) ==
    [i \in 1..Len(e.groups) |->
        Call(Cmd("XGROUP", <<"CREATE", e.keys[1], e.groups[i], "0-0">>), e.keys[1])]

\* CommandConverter::handle_expire is called last in every arm.
HandleRdbNoExpire(e) ==
    IF e.verb \in PlainTypes THEN <<Call(PrimaryCmd(e), NoKey)>>
    ELSE IF e.verb = "Stream" THEN XAdds(e) \o XGroups(e)
    ELSE <<>>

\* CommandConverter::handle_rdb.
HandleRdb(e) ==
    IF e.verb \in PlainTypes
    THEN <<Call(PrimaryCmd(e), NoKey)>> \o HandleExpire(e.keys[1], e.opt, e.vals[2])
    ELSE IF e.verb = "Stream"
    THEN XAdds(e) \o XGroups(e) \o HandleExpire(e.keys[1], e.opt, e.vals[2])
    ELSE <<>>

\* Command variants whose arm builds the request from the key(s) followed by
\* the other fields in order: cmd.arg(x.key).arg(...).
KeyFirstVerbs ==
    {"APPEND", "DECR", "DECRBY", "EXPIRE", "EXPIREAT", "INCR", "PERSIST",
     "SETEX", "LPUSH", "RENAME"}

\* CommandConverter::handle_aof (and, arm for arm, handler.rs handle_aof):
\* every arm builds one request and calls execute(cmd, None).  keys are the
\* command's key fields (the destination first), vals its other fields.  The
\* PEXPIRE and PEXPIREAT arms add the time only; the ZUNIONSTORE arm adds the
\* destination twice.
HandleAof(e) ==
    IF e.verb = "SET"
    THEN <<Call(Cmd("SET", <<e.keys[1], e.vals[1]>>), NoKey)>>
    ELSE IF e.verb \in KeyFirstVerbs
    THEN <<Call(Cmd(e.verb, e.keys \o e.vals), NoKey)>>
    ELSE IF e.verb \in {"PEXPIRE", "PEXPIREAT"}
    THEN <<Call(Cmd(e.verb, e.vals), NoKey)>>
    ELSE IF e.verb = "ZUNIONSTORE"
    THEN <<Call(Cmd(e.verb, <<e.keys[1], e.keys[1]>> \o e.vals \o Tail(e.keys)), NoKey)>>
    ELSE IF e.verb = "ZINTERSTORE"
    THEN <<Call(Cmd(e.verb, <<e.keys[1]>> \o e.vals \o Tail(e.keys)), NoKey)>>
    ELSE IF e.verb \in {"BITOP", "EVAL", "EVALSHA", "MULTI", "EXEC", "PFMERGE",
                        "SDIFFSTORE", "SINTERSTORE", "SUNIONSTORE", "PUBLISH"}
    THEN <<Call(Cmd(e.verb, e.keys \o e.vals), NoKey)>>
    ELSE IF e.verb = "Other"
    THEN <<Call(Cmd(e.opt, e.vals), NoKey)>>
    ELSE <<>>

\* The body of `for key in &del.keys' (DEL, PFCOUNT, UNLINK): one request
\* per key, routed by that key.
ExpandKeysNoOverride(verb, keys) ==
    [i \in 1..Len(keys) |-> Call(Cmd(verb, <<keys[i]>>), keys[1])]

ExpandKeys(verb, keys) ==
    [i \in 1..Len(keys) |-> Call(Cmd(verb, <<keys[i]>>), keys[i])]

\* The body of `for kv in &mset.key_values' (MSET, MSETNX).
ExpandPairs(verb, keys, vals) ==
    [i \in 1..Len(keys) |-> Call(Cmd(verb, <<keys[i], vals[i]>>), keys[i])]

\* The XGROUP arm: opt names the subcommand that is set.
HandleXGroup(e) ==
    IF e.opt = "DESTROY"
    THEN <<Call(Cmd("XGROUP", <<"DESTROY", e.keys[1], e.vals[1]>>), e.keys[1])>>
    ELSE <<Call(Cmd("XGROUP", <<e.opt, e.keys[1], e.vals[1], e.vals[2]>>), e.keys[1])>>

\* The broadcast arms of ShardedEventHandler::handle.
BroadcastCmd(e) ==
    CASE e.verb = "SELECT" -> Cmd("SELECT", <<e.vals[1]>>)
      [] e.verb = "SCRIPTFLUSH" -> Cmd("SCRIPT", <<"FLUSH">>)
      [] e.verb = "SCRIPTLOAD" -> Cmd("SCRIPT", <<"LOAD", e.vals[1]>>)
      [] e.verb = "SWAPDB" -> Cmd("SWAPDB", <<e.vals[1], e.vals[2]>>)
      [] OTHER -> Cmd(e.verb, IF e.opt = "ASYNC" THEN <<"ASYNC">> ELSE <<>>)

\* ShardedEventHandler::handle: the calls it makes for one event, in order.
ShardedBroadcast(e) == <<Bcast(BroadcastCmd(e))>>

ShardedCalls(e) ==
    IF e.src = "RDB" THEN HandleRdb(e)
    ELSE IF e.verb \in BroadcastVerbs THEN ShardedBroadcast(e)
    ELSE IF e.verb \in ExpandKeyVerbs THEN ExpandKeys(e.verb, e.keys)
    ELSE IF e.verb \in ExpandPairVerbs
         THEN ExpandPairs(PairVerb(e.verb), e.keys, e.vals)
    ELSE IF e.verb = "XGROUP" THEN HandleXGroup(e)
    ELSE IF e.verb \in DroppedVerbs THEN <<>>
    ELSE HandleAof(e)

\* Command variants ClusterEventHandlerImpl::handle maps to None.
ClusterDroppedVerbsNoPublish ==
    {"BITOP", "EVAL", "EVALSHA", "MULTI", "EXEC", "PFMERGE", "SDIFFSTORE",
     "SINTERSTORE", "SUNIONSTORE", "ZUNIONSTORE", "ZINTERSTORE"}

ClusterDroppedVerbs ==
    {"BITOP", "EVAL", "EVALSHA", "MULTI", "EXEC", "PFMERGE", "SDIFFSTORE",
     "SINTERSTORE", "SUNIONSTORE", "ZUNIONSTORE", "ZINTERSTORE", "PUBLISH"}

\* One request carrying every key (and value) of the command.
RECURSIVE Interleave(_, _)
Interleave(keys, vals) ==
    IF keys = <<>> THEN <<>>
    ELSE IF vals = <<>> THEN keys
    ELSE <<Head(keys), Head(vals)>> \o Interleave(Tail(keys), Tail(vals))

ClusterForward(e) == <<Call(Cmd(e.verb, Interleave(e.keys, e.vals)), NoKey)>>

\* ClusterEventHandlerImpl::handle, the DEL, MSET, MSETNX, PFCOUNT and UNLINK
\* arms: a loop over the keys (pairs) with one self.execute(Some(cmd)) each.
ClusterExpand(e) ==
    IF e.verb \in ExpandPairVerbs
    THEN ExpandPairs(PairVerb(e.verb), e.keys, e.vals)
    ELSE ExpandKeys(e.verb, e.keys)

\* ClusterEventHandlerImpl::handle, Object::Stream: one XADD per entry, sent
\* with self.execute(Some(cmd)); the arm ends with None.
ClusterStream(e) ==
    [i \in 1..Len(e.entries) |->
        Call(Cmd("XADD", <<e.keys[1], e.entries[i], "f", e.vals[1]>>), NoKey)]

\* ClusterEventHandlerImpl::handle: the requests it sends for one command, in
\* order.  The last arm hands the command to the converter and sends the
\* request it returns.
ClusterCalls(e) ==
    IF e.src = "AOF" /\ e.verb \in (ExpandKeyVerbs \cup ExpandPairVerbs)
    THEN ClusterExpand(e)
    ELSE IF e.src = "AOF" /\ e.verb \in ClusterDroppedVerbs THEN <<>>
    ELSE IF e.src = "AOF" THEN HandleAof(e)
    ELSE IF e.verb = "Stream" THEN ClusterStream(e)
    ELSE HandleRdb(e)

\* ShardedEventHandler::execute: the shard whose sender gets the request.
ExecuteNoFallback(c) ==
    LET k == IF c.key # NoKey THEN c.key ELSE c.cmd.args[1]
        node == GetShard(k)
    IN  IF node = NoShard THEN <<>> ELSE <<node>>

ExecuteTargets(c) ==
    LET k == IF c.key # NoKey THEN c.key ELSE c.cmd.args[1]
        node == GetShard(k)
    IN  IF node = NoShard THEN <<FirstSender>> ELSE <<node>>

\* ShardedEventHandler::broadcast: `for (_, sender) in senders.iter()', the
\* senders in the order of their addresses.
BroadcastFirstOnly == <<FirstSender>>

BroadcastTargets == [i \in 1..Cardinality(Active) |-> i - 1]

\* The channels one call sends on: every sender for broadcast (in the order
\* of senders.iter()), one sender for execute; the single worker in cluster mode.
CallTargets(c) ==
    IF mode \in {"cluster", "standalone"} THEN <<0>>
    ELSE IF c.bcast THEN BroadcastTargets
    ELSE ExecuteTargets(c)

\* The receiving end of worker s's channel is gone: its thread has exited or
\* panicked, which drops the Receiver.
Closed(s) == wpc[s] \in {"dead", "done"}

\* sender.send(Message::Cmd(cmd)) for each target of each call, in order.
\* ch and st are the channels and the enqueue histories so far.  The result
\* is <<channels, histories, ok>>: a send on a closed channel returns Err and
\* the dispatcher panics, so nothing after it is sent and ok is FALSE.
RECURSIVE SendToIgnoreClosed(_, _, _, _, _)
SendToIgnoreClosed(ts, cmd, off, ch, st) ==
    IF ts = <<>> THEN <<ch, st, TRUE>>
    ELSE LET s == Head(ts)
             m == MsgCmd(cmd, Len(st[s]) + 1, off)
         IN  IF Closed(s) THEN SendToIgnoreClosed(Tail(ts), cmd, off, ch, st)
             ELSE SendToIgnoreClosed(Tail(ts), cmd, off,
                    [ch EXCEPT ![s] = Append(@, m)],
                    [st EXCEPT ![s] = Append(@, m)])

RECURSIVE SendTo(_, _, _, _, _)
SendTo(ts, cmd, off, ch, st) ==
    IF ts = <<>> THEN <<ch, st, TRUE>>
    ELSE LET s == Head(ts)
             m == MsgCmd(cmd, Len(st[s]) + 1, off)
         IN  IF Closed(s) THEN <<ch, st, FALSE>>
             ELSE SendTo(Tail(ts), cmd, off,
                    [ch EXCEPT ![s] = Append(@, m)],
                    [st EXCEPT ![s] = Append(@, m)])

\* ShardedEventHandler::execute, lines 184-190: with no key given the routing
\* key is the request's first argument, and `None => panic!("cmd args is
\* empty")' when it has none.
ExecutePanics(c) ==
    mode = "sharding" /\ ~c.bcast /\ c.key = NoKey /\ c.cmd.args = <<>>

RECURSIVE SendCalls(_, _, _, _)
SendCalls(calls, off, ch, st) ==
    IF calls = <<>> THEN <<ch, st, TRUE>>
    ELSE IF ExecutePanics(Head(calls)) THEN <<ch, st, FALSE>>
    ELSE LET r == SendTo(CallTargets(Head(calls)), Head(calls).cmd, off, ch, st)
         IN  IF r[3] THEN SendCalls(Tail(calls), off, r[1], r[2]) ELSE r

\* handler.rs EventHandlerImpl::handle_rdb: for the five plain types a select
\* when the object's db is not the tracked one, then the object's request;
\* every other object is skipped.
SelectAlways(e) == <<Call(Cmd("select", <<e.db>>), NoKey)>>

SelectIfNew(e) ==
    IF e.db # db THEN <<Call(Cmd("select", <<e.db>>), NoKey)>> ELSE <<>>

StandaloneRdb(e) ==
    IF e.verb \in PlainTypes THEN SelectIfNew(e) \o <<Call(PrimaryCmd(e), NoKey)>>
    ELSE <<>>

\* EventHandlerImpl.db after handle_rdb.
DbAfter(e) ==
    IF mode = "standalone" /\ e.src = "RDB" /\ e.verb \in PlainTypes THEN e.db ELSE db

\* handler.rs EventHandlerImpl::handle: handle_rdb, and handle_aof, whose
\* Command::DEL arm builds one request carrying every key and whose other arms
\* build the same requests as the converter's; each is passed to self.send.
\* The Command::SELECT arm (lines 541-545) sends SELECT db and leaves self.db
\* as it is.
StandaloneCalls(e) ==
    IF e.src = "RDB" THEN StandaloneRdb(e)
    ELSE IF e.verb = "DEL" THEN <<Call(Cmd("DEL", e.keys), NoKey)>>
    ELSE IF e.verb = "SELECT" THEN <<Call(Cmd("SELECT", <<e.vals[1]>>), NoKey)>>
    ELSE HandleAof(e)

HandleCalls(e) ==
    IF mode = "cluster" THEN ClusterCalls(e)
    ELSE IF mode = "standalone" THEN StandaloneCalls(e)
    ELSE ShardedCalls(e)

\* EventHandler::handle(event), called by the listener for one upstream
\* event; the listener then advances its replication offset.  When a send
\* fails the panic unwinds run(): no offset is advanced and no checkpoint is
\* written.
Handle(e) ==
    /\ spc = "pump"
    /\ repl_offset < MaxEvents
    /\ LET r == SendCalls(HandleCalls(e), repl_offset + 1, chan, sent)
       IN  /\ chan' = r[1]
           /\ sent' = r[2]
           /\ spc' = IF r[3] THEN spc ELSE "aborted"
           /\ repl_offset' = IF r[3] THEN repl_offset + 1 ELSE repl_offset
           /\ db' = IF r[3] THEN DbAfter(e) ELSE db
    /\ lastEvent' = e
    /\ before' = [s \in ShardIds |-> Len(sent[s])]
    /\ UNCHANGED <<cfgVars, poolVars, intent, workerVars, checkpoint, meta_file, repl_id, lastSave,
                   running, lastErr>>

\* ------------------------------------------------------------------ worker
\* One executed pipeline: its requests, how many of them, from the front,
\* reached the target (all of them when query is Ok), and whether
\* flush_interval had elapsed / shutdown was set when it was executed.
Flush(batch, applied, ok, timed, shut) ==
    [batch |-> batch, applied |-> applied, ok |-> ok, timed |-> timed, shut |-> shut]

\* timer.elapsed() after up to one more tick, capped at flush_interval.
Later(w) == Min(elapsed[w] + 1, flush_interval)

\* new_worker, line 55: whether this pass of the loop calls recv_timeout.
WantsRecv(w) == (batch_size < 0) \/ (count[w] < batch_size)

\* ------------------------------------------------------------------ pool
\* new_worker, lines 35-39: the db of the target URI (conn_info.db), with
\* which the AtomicI64 db is created.
TargetDb == "0"

\* new_worker, lines 42-48: the pool holds at most one connection
\* (max_size(1)); build() establishes it, and the customizer's on_acquire
\* (lines 127-137) has selected the db read from the AtomicI64.
Conn(up, sel) == [up |-> up, sel |-> sel]
NoConn == Conn(FALSE, TargetDb)
NewConn == Conn(TRUE, TargetDb)

\* What a pool.get() did: how it came to its connection, and the db that
\* on_acquire read and selected during the call ("none" when on_acquire was
\* not called with a positive result).
Acq(how, select) == [how |-> how, select |-> select]
NoAcq == Acq("none", "none")

\* new_worker, line 73, pool.get(): the pool hands out its connection when it
\* has one; when it has none, one is established while get() waits, and
\* on_acquire (lines 127-137) reads the db and selects it on the new
\* connection before the pool takes it in.
Acquired(w) ==
    IF conn[w].up THEN Acq("reused", "none") ELSE Acq("established", intent[w])

ConnAcquired(w) == IF conn[w].up THEN conn[w] ELSE Conn(TRUE, intent[w])

\* pool.get() returns Err when no connection came about within the pool's
\* timeout: connecting failed, or on_acquire returned Err (lines 131-134) and
\* the connection was thrown away.  The pool is then without a connection.
NotAcquired == Acq("failed", "none")

\* new_worker, line 75: the db the connection has selected after the target
\* executed the requests of a pipeline.
RECURSIVE SelAfter(_, _)
SelAfter(sel, batch) ==
    IF batch = <<>> THEN sel
    ELSE SelAfter(IF Head(batch).cmd.verb = "SELECT"
                  THEN Head(batch).cmd.args[1] ELSE sel, Tail(batch))

\* The connection breaks or is retired by the pool (the target closes it, its
\* idle time or lifetime is over): the pool has no connection until one is
\* established again.
ConnBreaks(w) ==
    /\ mode = "sharding"
    /\ w \in Active
    /\ wpc[w] \in {"recv", "check"}
    /\ conn[w].up
    /\ conn' = [conn EXCEPT ![w] = NoConn]
    /\ UNCHANGED <<cfgVars, procVars, workerVars, intent, lastAcq, recvDb, spc, repl_offset,
                   checkpoint, chan, sent, lastEvent, before>>

\* new_worker, line 58: pipeline.add_command(cmd).
BatchAddFront(w, m) == <<m>> \o pipeline[w]

BatchAdd(w, m) == Append(pipeline[w], m)

\* The worker is at the top of its loop (line 54): it is not inside
\* pipeline.query, which returns before the loop goes on.
AtLoopTopOrInQuery(w) == wpc[w] \in {"recv", "query"}

AtLoopTop(w) == wpc[w] = "recv"

\* new_worker, lines 65-67: Message::SwapDb stores its db into the AtomicI64;
\* the other messages leave it alone.
IntentAfterIgnored(w, m) == intent[w]

IntentAfter(w, m) == IF m.type = "SwapDb" THEN m.db ELSE intent[w]

\* The databases named by SwapDb messages.
Dbs == {"0", "1"}

\* A holder of the channel's Sender sends Message::SwapDb(d).  The variant
\* belongs to the channel's message type (lines 19-23); the dispatchers send
\* only Cmd and Terminate.
SendSwapDb(w) ==
    /\ mode = "sharding"
    /\ w \in Active
    /\ spc = "pump"
    /\ Len(chan[w]) < MaxDispatched
    /\ \E d \in Dbs : chan' = [chan EXCEPT ![w] = Append(@, MsgSwapDb(d))]
    /\ UNCHANGED <<cfgVars, poolVars, intent, procVars, workerVars, spc, repl_offset,
                   checkpoint, sent, lastEvent, before>>

\* new_worker, lines 55-70: the receive step of one pass of the loop.
WorkerRecv(w) ==
    /\ mode = "sharding"
    /\ w \in Active
    /\ AtLoopTop(w)
    /\ IF WantsRecv(w)
       THEN IF chan[w] # <<>>
            THEN LET m == Head(chan[w])
                 IN  /\ chan' = [chan EXCEPT ![w] = Tail(@)]
                     /\ pipeline' = IF m.type = "Cmd"
                                    THEN [pipeline EXCEPT ![w] = BatchAdd(w, m)]
                                    ELSE pipeline
                     /\ count' = IF m.type = "Cmd"
                                 THEN [count EXCEPT ![w] = @ + 1]
                                 ELSE count
                     /\ shutdown' = IF m.type = "Terminate"
                                    THEN [shutdown EXCEPT ![w] = TRUE]
                                    ELSE shutdown
                     /\ intent' = [intent EXCEPT ![w] = IntentAfter(w, m)]
                     /\ recvDb' = IF m.type = "Cmd"
                                  THEN [recvDb EXCEPT ![w] = Append(@, intent[w])]
                                  ELSE recvDb
                     /\ lastRecv' = [lastRecv EXCEPT ![w] = m.type]
                     /\ \E t \in {elapsed[w], Later(w)} :
                            elapsed' = [elapsed EXCEPT ![w] = t]
            ELSE /\ lastRecv' = [lastRecv EXCEPT ![w] = "timeout"]
                 /\ elapsed' = [elapsed EXCEPT ![w] = Later(w)]
                 /\ UNCHANGED <<chan, pipeline, count, shutdown, intent, recvDb>>
       ELSE /\ lastRecv' = [lastRecv EXCEPT ![w] = "skipped"]
            /\ \E t \in {elapsed[w], Later(w)} :
                   elapsed' = [elapsed EXCEPT ![w] = t]
            /\ UNCHANGED <<chan, pipeline, count, shutdown, intent, recvDb>>
    /\ wpc' = [wpc EXCEPT ![w] = "check"]
    /\ UNCHANGED <<cfgVars, conn, lastAcq, procVars, spc, repl_offset, checkpoint, sent, flushed,
                   lastFlush, lastEvent, before>>

\* new_worker, line 72: whether the batch is due.
FlushDueStrict(w) ==
    (elapsed[w] > flush_interval \/ shutdown[w]) /\ count[w] > 0

FlushDueAlsoOnShutdown(w) ==
    (elapsed[w] >= flush_interval /\ count[w] > 0) \/ shutdown[w]

FlushDueOnSize(w) ==
    /\ count[w] > 0
    /\ \/ elapsed[w] >= flush_interval
       \/ shutdown[w]
       \/ (batch_size > 0 /\ count[w] >= batch_size)

FlushDue(w) == (elapsed[w] >= flush_interval \/ shutdown[w]) /\ count[w] > 0

\* new_worker, lines 83-85: the batch after pool.get() returned a connection
\* and the pipeline was queried.
BatchAfterQueryKept(w) == pipeline[w]

BatchAfterQuery(w) == <<>>

\* new_worker, line 83: `timer = Instant::now()' after the pipeline was
\* executed; the timer measures the time since the last flush.
TimerAfterQueryKept(w) == elapsed[w]

TimerAfterQuery(w) == 0

\* new_worker, line 85: count after the pipeline was executed.
CountAfterQueryKept(w) == count[w]

CountAfterQuery(w) == 0

\* new_worker, lines 92-94: where the loop goes after the flush step.
AfterFlush(w) == IF shutdown[w] THEN "done" ELSE "recv"

\* new_worker, lines 71-94: the flush step of one pass of the loop.  pool.get()
\* returns a connection or an error; pipeline.query returns Ok, or an error
\* after any number of the requests, from the front, reached the target.
\* new_worker, lines 87-89: the Err arm of pool.get() logs the error and
\* touches nothing; the batch stays as it is.
BatchAfterAcquireErrCleared(w) == <<>>

BatchAfterAcquireErr(w) == pipeline[w]

WorkerFlush(w) ==
    /\ mode = "sharding"
    /\ w \in Active
    /\ wpc[w] = "check"
    /\ IF FlushDue(w)
       THEN \E acquired \in BOOLEAN :
            IF acquired
            THEN \E ok \in BOOLEAN :
                 \E applied \in 0..Len(pipeline[w]) :
                    /\ ok => applied = Len(pipeline[w])
                    /\ flushed' = [flushed EXCEPT ![w] =
                            Append(@, Flush(pipeline[w], applied, ok,
                                   elapsed[w] >= flush_interval, shutdown[w]))]
                    /\ elapsed' = [elapsed EXCEPT ![w] = TimerAfterQuery(w)]
                    /\ pipeline' = [pipeline EXCEPT ![w] = BatchAfterQuery(w)]
                    /\ count' = [count EXCEPT ![w] = CountAfterQuery(w)]
                    /\ lastFlush' = [lastFlush EXCEPT ![w] =
                            IF ok THEN "ok" ELSE "query_err"]
                    /\ lastAcq' = [lastAcq EXCEPT ![w] = Acquired(w)]
                    /\ conn' = [conn EXCEPT ![w] =
                            Conn(TRUE, SelAfter(ConnAcquired(w).sel,
                                                SubSeq(pipeline[w], 1, applied)))]
                    /\ recvDb' = [recvDb EXCEPT ![w] = <<>>]
            ELSE /\ lastFlush' = [lastFlush EXCEPT ![w] = "acquire_err"]
                 /\ pipeline' = [pipeline EXCEPT ![w] = BatchAfterAcquireErr(w)]
                 /\ lastAcq' = [lastAcq EXCEPT ![w] = NotAcquired]
                 /\ conn' = [conn EXCEPT ![w] = NoConn]
                 /\ UNCHANGED <<flushed, elapsed, count, recvDb>>
       ELSE /\ lastFlush' = [lastFlush EXCEPT ![w] = "none"]
            /\ lastAcq' = [lastAcq EXCEPT ![w] = NoAcq]
            /\ UNCHANGED <<flushed, elapsed, pipeline, count, conn, recvDb>>
    /\ wpc' = [wpc EXCEPT ![w] = AfterFlush(w)]
    /\ UNCHANGED <<cfgVars, intent, procVars, spc, repl_offset, checkpoint, chan, shutdown, sent,
                   lastRecv, lastEvent, before>>

\* new_worker, lines 71-73 and 87-94: the flush step up to the call of
\* pipeline.query; the worker then waits inside the call (wpc = "query").
FlushBegin(w) ==
    /\ mode = "sharding"
    /\ w \in Active
    /\ wpc[w] = "check"
    /\ IF FlushDue(w)
       THEN \E acquired \in BOOLEAN :
            IF acquired
            THEN /\ wpc' = [wpc EXCEPT ![w] = "query"]
                 /\ lastAcq' = [lastAcq EXCEPT ![w] = Acquired(w)]
                 /\ conn' = [conn EXCEPT ![w] = ConnAcquired(w)]
                 /\ UNCHANGED lastFlush
            ELSE /\ lastFlush' = [lastFlush EXCEPT ![w] = "acquire_err"]
                 /\ lastAcq' = [lastAcq EXCEPT ![w] = NotAcquired]
                 /\ conn' = [conn EXCEPT ![w] = NoConn]
                 /\ wpc' = [wpc EXCEPT ![w] = AfterFlush(w)]
       ELSE /\ lastFlush' = [lastFlush EXCEPT ![w] = "none"]
            /\ wpc' = [wpc EXCEPT ![w] = AfterFlush(w)]
            /\ lastAcq' = [lastAcq EXCEPT ![w] = NoAcq]
            /\ UNCHANGED conn
    /\ UNCHANGED <<cfgVars, intent, procVars, spc, repl_offset, checkpoint, chan, shutdown, sent,
                   lastRecv, lastEvent, before, flushed, elapsed, pipeline, count, recvDb>>

\* new_worker, lines 74-85 and 92-94: pipeline.query returns, Ok or Err; the
\* timer is restarted, the pipeline cleared and count reset.
FlushEnd(w) ==
    /\ mode = "sharding"
    /\ w \in Active
    /\ wpc[w] = "query"
    /\ \E ok \in BOOLEAN :
       \E applied \in 0..Len(pipeline[w]) :
          /\ ok => applied = Len(pipeline[w])
          /\ flushed' = [flushed EXCEPT ![w] =
                  Append(@, Flush(pipeline[w], applied, ok,
                         elapsed[w] >= flush_interval, shutdown[w]))]
          /\ lastFlush' = [lastFlush EXCEPT ![w] = IF ok THEN "ok" ELSE "query_err"]
          /\ conn' = [conn EXCEPT ![w] =
                  Conn(TRUE, SelAfter(conn[w].sel, SubSeq(pipeline[w], 1, applied)))]
    /\ elapsed' = [elapsed EXCEPT ![w] = TimerAfterQuery(w)]
    /\ pipeline' = [pipeline EXCEPT ![w] = BatchAfterQuery(w)]
    /\ recvDb' = [recvDb EXCEPT ![w] = <<>>]
    /\ count' = [count EXCEPT ![w] = CountAfterQuery(w)]
    /\ wpc' = [wpc EXCEPT ![w] = AfterFlush(w)]
    /\ UNCHANGED <<cfgVars, lastAcq, intent, procVars, spc, repl_offset, checkpoint, chan, shutdown, sent,
                   lastRecv, lastEvent, before>>

\* new_cluster, lines 129-147: one pass of the cluster worker's loop.  A Cmd
\* is queried at once on the cluster connection (a pipeline of one).
ClusterWorker(w) ==
    /\ mode = "cluster"
    /\ w \in Active
    /\ wpc[w] = "recv"
    /\ IF chan[w] # <<>>
       THEN LET m == Head(chan[w])
            IN  /\ chan' = [chan EXCEPT ![w] = Tail(@)]
                /\ lastRecv' = [lastRecv EXCEPT ![w] = m.type]
                /\ IF m.type = "Cmd"
                   THEN \E ok \in BOOLEAN :
                        /\ flushed' = [flushed EXCEPT ![w] =
                              Append(@, Flush(<<m>>, IF ok THEN 1 ELSE 0, ok, FALSE, FALSE))]
                        /\ lastFlush' = [lastFlush EXCEPT ![w] =
                              IF ok THEN "ok" ELSE "query_err"]
                        /\ UNCHANGED <<shutdown, wpc>>
                   ELSE /\ shutdown' = [shutdown EXCEPT ![w] = TRUE]
                        /\ wpc' = [wpc EXCEPT ![w] = "done"]
                        /\ UNCHANGED <<flushed, lastFlush>>
       ELSE /\ lastRecv' = [lastRecv EXCEPT ![w] = "timeout"]
            /\ UNCHANGED <<chan, flushed, lastFlush, shutdown, wpc>>
    /\ UNCHANGED <<cfgVars, poolVars, intent, procVars, spc, repl_offset, checkpoint, pipeline, count,
                   elapsed, sent, lastEvent, before>>

\* handler.rs new, lines 768-777: the receive of one pass of the standalone
\* worker's loop; there is no batch size.
StandaloneRecv(w) ==
    /\ mode = "standalone"
    /\ w \in Active
    /\ AtLoopTop(w)
    /\ IF chan[w] # <<>>
       THEN LET m == Head(chan[w])
            IN  /\ chan' = [chan EXCEPT ![w] = Tail(@)]
                /\ pipeline' = IF m.type = "Cmd"
                               THEN [pipeline EXCEPT ![w] = BatchAdd(w, m)]
                               ELSE pipeline
                /\ count' = IF m.type = "Cmd"
                            THEN [count EXCEPT ![w] = @ + 1]
                            ELSE count
                /\ shutdown' = IF m.type = "Terminate"
                               THEN [shutdown EXCEPT ![w] = TRUE]
                               ELSE shutdown
                /\ lastRecv' = [lastRecv EXCEPT ![w] = m.type]
                /\ \E t \in {elapsed[w], Later(w)} :
                       elapsed' = [elapsed EXCEPT ![w] = t]
       ELSE /\ lastRecv' = [lastRecv EXCEPT ![w] = "timeout"]
            /\ elapsed' = [elapsed EXCEPT ![w] = Later(w)]
            /\ UNCHANGED <<chan, pipeline, count, shutdown>>
    /\ wpc' = [wpc EXCEPT ![w] = "check"]
    /\ UNCHANGED <<cfgVars, poolVars, intent, procVars, spc, repl_offset, checkpoint, sent, flushed,
                   lastFlush, lastEvent, before>>

\* handler.rs new, line 779: the flush condition of the standalone worker.
StandaloneFlushDue(w) ==
    (elapsed[w] >= flush_interval /\ count[w] > 0) \/ shutdown[w]

\* handler.rs new, lines 778-792: the flush step of the standalone worker.  It
\* owns its connection; pipeline.query is called on the pipeline as it is,
\* also when it holds no request.
StandaloneFlush(w) ==
    /\ mode = "standalone"
    /\ w \in Active
    /\ wpc[w] = "check"
    /\ IF StandaloneFlushDue(w)
       THEN \E ok \in BOOLEAN :
            \E applied \in 0..Len(pipeline[w]) :
               /\ ok => applied = Len(pipeline[w])
               /\ flushed' = [flushed EXCEPT ![w] =
                       Append(@, Flush(pipeline[w], applied, ok,
                              elapsed[w] >= flush_interval, shutdown[w]))]
               /\ elapsed' = [elapsed EXCEPT ![w] = 0]
               /\ pipeline' = [pipeline EXCEPT ![w] = <<>>]
               /\ count' = [count EXCEPT ![w] = 0]
               /\ lastFlush' = [lastFlush EXCEPT ![w] =
                       IF ok THEN "ok" ELSE "query_err"]
       ELSE /\ lastFlush' = [lastFlush EXCEPT ![w] = "none"]
            /\ UNCHANGED <<flushed, elapsed, pipeline, count>>
    /\ wpc' = [wpc EXCEPT ![w] = AfterFlush(w)]
    /\ UNCHANGED <<cfgVars, poolVars, intent, procVars, spc, repl_offset, checkpoint, chan, shutdown, sent,
                   lastRecv, lastEvent, before>>

\* new_worker, lines 35-48, and new_cluster, lines 121-128: the thread panics
\* before it enters its loop (the target address does not parse, the pool or
\* the cluster connection cannot be built) and its Receiver is dropped.  When
\* ClusterClient::open fails (cluster.rs 121-127) the control flag is cleared
\* first.
WorkerPanics(w) ==
    /\ w \in Active
    /\ wpc[w] = "recv"
    /\ lastRecv[w] = "none"
    /\ wpc' = [wpc EXCEPT ![w] = "dead"]
    /\ \E cleared \in (IF mode = "cluster" THEN BOOLEAN ELSE {FALSE}) :
          running' = (running /\ ~cleared)
    /\ UNCHANGED <<cfgVars, poolVars, intent, spc, repl_offset, checkpoint, chan, pipeline, count,
                   elapsed, shutdown, sent, flushed, lastRecv, lastFlush,
                   lastEvent, before, meta_file, repl_id, lastSave, lastErr, db>>

\* ------------------------------------------------------- checkpoint file
\* Text is a sequence of one-character strings.  i64 is modelled eight bits
\* wide: the offsets of the model are I64Min..I64Max.
I64Max == 127
I64Min == -I64Max - 1

DigitChars == <<"0", "1", "2", "3", "4", "5", "6", "7", "8", "9">>
IsDigit(c) == \E d \in 1..10 : DigitChars[d] = c
DigitValue(c) == (CHOOSE d \in 1..10 : DigitChars[d] = c) - 1

\* format!("{}", n) of a non-negative integer.
RECURSIVE FormatNat(_)
FormatNat(n) ==
    IF n < 10 THEN <<DigitChars[n + 1]>>
    ELSE FormatNat(n \div 10) \o <<DigitChars[(n % 10) + 1]>>

\* format!("{}", offset) of an i64.
FormatI64(n) == IF n < 0 THEN <<"-">> \o FormatNat(-n) ELSE FormatNat(n)

\* The value of a sequence of digits, I64Max + 1 standing for "too large".
RECURSIVE DigitsValue(_, _)
DigitsValue(s, acc) ==
    IF s = <<>> THEN acc
    ELSE DigitsValue(Tail(s), Min(acc * 10 + DigitValue(Head(s)), I64Max + 2))

\* str::parse::<i64>: an optional sign, then at least one digit and nothing
\* else, and a value that fits i64.
ParseI64(s) ==
    LET signed == s # <<>> /\ Head(s) \in {"-", "+"}
        digits == IF signed THEN Tail(s) ELSE s
        neg == signed /\ Head(s) = "-"
        v == DigitsValue(digits, 0)
    IN  IF digits = <<>> \/ (\E i \in 1..Len(digits) : ~IsDigit(digits[i]))
        THEN [ok |-> FALSE, value |-> 0]
        ELSE IF neg
             THEN IF v <= -I64Min THEN [ok |-> TRUE, value |-> -v]
                                  ELSE [ok |-> FALSE, value |-> 0]
             ELSE IF v <= I64Max THEN [ok |-> TRUE, value |-> v]
                                 ELSE [ok |-> FALSE, value |-> 0]

\* str::split(","): the fields between the commas, one more than the commas.
RECURSIVE Split(_, _, _)
Split(s, field, done) ==
    IF s = <<>> THEN Append(done, field)
    ELSE IF Head(s) = ","
         THEN Split(Tail(s), <<>>, Append(done, field))
         ELSE Split(Tail(s), Append(field, Head(s)), done)

NoFile == [exists |-> FALSE, text |-> <<>>]
File(t) == [exists |-> TRUE, text |-> t]

LoadErr == [ok |-> FALSE, id |-> <<>>, offset |-> 0]
LoadOk(id, offset) == [ok |-> TRUE, id |-> id, offset |-> offset]

\* load_repl_meta, lines 162-179.
LoadReplMetaPartial(f) ==
    IF ~f.exists THEN LoadErr
    ELSE LET vec == Split(f.text, <<>>, <<>>)
         IN  IF Len(vec) >= 2
             THEN LET p == ParseI64(vec[2])
                  IN  LoadOk(vec[1], IF p.ok THEN p.value ELSE -1)
             ELSE LoadErr

LoadReplMeta(f) ==
    IF ~f.exists THEN LoadErr
    ELSE LET vec == Split(f.text, <<>>, <<>>)
         IN  IF Len(vec) = 2
             THEN LET p == ParseI64(vec[2])
                  IN  IF p.ok THEN LoadOk(vec[1], p.value) ELSE LoadErr
             ELSE LoadErr

\* save_repl_meta, line 190: the text written to the file.
Meta(id, offset) == id \o <<",">> \o FormatI64(offset)

\* save_repl_meta, lines 181-194.  "written": every step succeeded;
\* "untouched": create_dir or File::create failed; "truncated": File::create
\* emptied the file and the write or the flush failed.
SaveOutcomes == {"written", "untouched", "truncated"}
SaveFile(f, id, offset, outcome) ==
    CASE outcome = "written" -> File(Meta(id, offset))
      [] outcome = "untouched" -> f
      [] outcome = "truncated" -> File(<<>>)

NoSave == [outcome |-> "none", id |-> <<>>, offset |-> 0, logged |-> FALSE]

\* ConnectionErrorHandler::handle_error, worker.rs 107-119: the control flag
\* after the handler was given the error e.
FlagAfterErrorKept(e) == running

FlagAfterError(e) == IF e = "extension error" THEN FALSE ELSE running

ConnErrors == {"extension error", "other"}

\* The pool of worker w hands a connection error to handle_error: from
\* pool.get() on the worker's thread while a flush is due, or from the pool's
\* own thread.  On "extension error" the handler clears the control flag and
\* panics, which ends the thread it was called on; any other error is logged.
HandleError(w) ==
    /\ mode = "sharding"
    /\ w \in Active
    /\ spc \in {"loop", "pump", "stopped", "saved", "dropped"}
    /\ wpc[w] \in {"recv", "check"}
    /\ \E e \in ConnErrors, inGet \in BOOLEAN :
          /\ inGet => (wpc[w] = "check" /\ FlushDue(w))
          /\ running' = FlagAfterError(e)
          /\ lastErr' = e
          /\ wpc' = IF e = "extension error" /\ inGet
                    THEN [wpc EXCEPT ![w] = "dead"]
                    ELSE wpc
    /\ UNCHANGED <<cfgVars, poolVars, intent, spc, repl_offset, checkpoint, chan, pipeline, count,
                   elapsed, shutdown, sent, flushed, lastRecv, lastFlush,
                   lastEvent, before, meta_file, repl_id, lastSave, db>>

\* -------------------------------------------------------------- supervisor
\* run, lines 76-88: the restart loop ends, because running was cleared or
\* because listener.start() returned Ok.
StopPump ==
    /\ spc = "pump"
    /\ spc' = "stopped"
    /\ UNCHANGED <<cfgVars, poolVars, intent, procVars, workerVars, repl_offset, checkpoint, chan, sent,
                   lastEvent, before>>

\* run, line 91: the offset handed to save_repl_meta is the listener's
\* current one.
SavedOffsetStale == IF repl_offset > 0 THEN repl_offset - 1 ELSE 0

SavedOffset == repl_offset

\* run, lines 90-93, and save_repl_meta: the checkpoint file is written, or
\* the write fails and the error is logged.  `outcomes' is what the file
\* system may do.
SaveReplMetaTo(outcomes) ==
    /\ spc = "stopped"
    /\ spc' = "saved"
    /\ \E outcome \in outcomes :
          /\ meta_file' = SaveFile(meta_file, repl_id, SavedOffset, outcome)
          /\ checkpoint' = CASE outcome = "written" -> SavedOffset
                              [] outcome = "untouched" -> checkpoint
                              [] outcome = "truncated" -> -1
          /\ lastSave' = [outcome |-> outcome, id |-> repl_id, offset |-> SavedOffset,
                           logged |-> outcome # "written"]
    /\ UNCHANGED <<cfgVars, poolVars, intent, workerVars, repl_offset, repl_id, chan, sent,
                   lastEvent, before, running, lastErr, db>>

SaveReplMeta == SaveReplMetaTo(SaveOutcomes)

\* The same with a file system on which every step of the save succeeds.
SaveWritten == SaveReplMetaTo({"written"})

\* A drop whose first loop ends after the first sender.
DropSendFirstOnly ==
    /\ spc \in {"saved", "aborted"}
    /\ spc' = IF spc = "saved" THEN "dropped" ELSE "unwinding"
    /\ chan' = [chan EXCEPT ![0] = Append(@, MsgTerminate)]
    /\ UNCHANGED <<cfgVars, poolVars, intent, procVars, workerVars, repl_offset, checkpoint, sent,
                   lastEvent, before>>

\* Drop for ShardedEventHandler / ClusterEventHandlerImpl, first half: send
\* Terminate on every sender (an Err of send is ignored).  The handler is
\* dropped when run() returns, or when a panic of the dispatcher unwinds it.
DropSendTerminate ==
    /\ spc \in {"saved", "aborted"}
    /\ spc' = IF spc = "saved" THEN "dropped" ELSE "unwinding"
    /\ chan' = [s \in ShardIds |->
                  IF s \in Active THEN Append(chan[s], MsgTerminate) ELSE chan[s]]
    /\ UNCHANGED <<cfgVars, poolVars, intent, procVars, workerVars, repl_offset, checkpoint, sent,
                   lastEvent, before>>

\* Drop, second half: thread.join() of every worker has returned (an Err of
\* join is ignored); run returns, or the panicking process exits.
DropJoin ==
    /\ spc \in {"dropped", "unwinding"}
    /\ \A s \in Active : Closed(s)
    /\ spc' = IF spc = "dropped" THEN "returned" ELSE "exited"
    /\ UNCHANGED <<cfgVars, poolVars, intent, procVars, workerVars, repl_offset, checkpoint, chan, sent,
                   lastEvent, before>>

\* ------------------------------------------------------ process lifecycle
\* new_redis_listener_config, lines 124-146: the configuration starts with
\* repl_id "?" and repl_offset -1 and takes both from the checkpoint file when
\* load_repl_meta returns Ok.
NewRedisListenerConfig ==
    /\ spc = "config"
    /\ spc' = "build"
    /\ LET r == LoadReplMeta(meta_file)
       IN  /\ repl_id' = IF r.ok THEN r.id ELSE <<"?">>
           /\ repl_offset' = IF r.ok THEN r.offset ELSE -1
    /\ UNCHANGED <<cfgVars, poolVars, intent, workerVars, checkpoint, chan, sent, lastEvent, before,
                   meta_file, lastSave, running, lastErr, db>>

\* run, line 54: both --sharding and --cluster were given.
BothFlagsIgnored == FALSE

BothFlags == mode = "both"

\* run, lines 46-74: with both flags the function panics; otherwise the
\* dispatcher of the mode is constructed, which spawns its workers, and the
\* listener is built.  The restart loop comes next.
BuildHandler ==
    /\ spc = "build"
    /\ IF BothFlags
       THEN /\ spc' = "rejected"
            /\ UNCHANGED <<wpc, conn>>
       ELSE /\ spc' = "loop"
            /\ wpc' = [s \in ShardIds |-> IF s \in Active THEN "recv" ELSE wpc[s]]
            /\ conn' = [s \in ShardIds |-> IF s \in Active THEN NewConn ELSE conn[s]]
    /\ UNCHANGED <<cfgVars, lastAcq, recvDb, intent, procVars, repl_offset, checkpoint, chan, pipeline,
                   count, elapsed, shutdown, sent, flushed, lastRecv, lastFlush,
                   lastEvent, before>>

\* run, line 76: the loop condition; listener.start() is called when the
\* control flag is set, the loop is left when it is not.
AfterLoopCheckAlways == "pump"

AfterLoopCheck == IF running THEN "pump" ELSE "stopped"

LoopCheck ==
    /\ spc = "loop"
    /\ spc' = AfterLoopCheck
    /\ UNCHANGED <<cfgVars, poolVars, intent, procVars, workerVars, repl_offset, checkpoint, chan,
                   sent, lastEvent, before>>

\* run, lines 77-84: listener.start() returned an Err that does not start
\* with NOPERM; it is logged and, after two seconds, the loop goes round.
ListenerStartErr ==
    /\ spc = "pump"
    /\ spc' = "loop"
    /\ UNCHANGED <<cfgVars, poolVars, intent, procVars, workerVars, repl_offset, checkpoint, chan,
                   sent, lastEvent, before>>

\* run, lines 79-80: listener.start() returned a NOPERM error; run panics.
ListenerNoPerm ==
    /\ spc = "pump"
    /\ spc' = "aborted"
    /\ UNCHANGED <<cfgVars, poolVars, intent, procVars, workerVars, repl_offset, checkpoint, chan,
                   sent, lastEvent, before>>

\* setup_ctrlc_handler, lines 149-153: Ctrl-C clears the control flag.
CtrlC ==
    /\ spc \in {"build", "loop", "pump"}
    /\ running
    /\ running' = FALSE
    /\ UNCHANGED <<cfgVars, poolVars, intent, workerVars, spc, repl_offset, checkpoint, chan, sent,
                   lastEvent, before, meta_file, repl_id, lastSave, lastErr, db>>

\* The upstream client (redis_event) records the replication id and the
\* offset of the stream in listener.config while it runs.
ReplIds == {<<"a", "b">>, <<"a", ",", "b">>, <<"?">>}
ReplOffsets == {I64Min, -1, 42, I64Max}

Replicate ==
    /\ spc = "pump"
    /\ \E id \in ReplIds, off \in ReplOffsets :
          /\ repl_id' = id
          /\ repl_offset' = off
    /\ UNCHANGED <<cfgVars, poolVars, intent, workerVars, spc, checkpoint, chan, sent, lastEvent,
                   before, meta_file, lastSave, running, lastErr, db>>

\* main, lines 33-38: the exit status of the process, -1 while it runs.  main
\* returns () after run returned; a panic of the main thread exits with 101.
ExitStatus ==
    CASE spc = "returned" -> 0
      [] spc \in {"exited", "rejected"} -> 101
      [] OTHER -> -1

\* The program is started again after a run that returned: everything but the
\* checkpoint file starts afresh.
Rerun ==
    /\ spc = "returned"
    /\ spc' = "config"
    /\ repl_offset' = -1
    /\ repl_id' = <<"?">>
    /\ checkpoint' = checkpoint
    /\ chan' = [s \in ShardIds |-> <<>>]
    /\ pipeline' = [s \in ShardIds |-> <<>>]
    /\ count' = [s \in ShardIds |-> 0]
    /\ elapsed' = [s \in ShardIds |-> 0]
    /\ shutdown' = [s \in ShardIds |-> FALSE]
    /\ wpc' = [s \in ShardIds |-> "unborn"]
    /\ sent' = [s \in ShardIds |-> <<>>]
    /\ flushed' = [s \in ShardIds |-> <<>>]
    /\ lastRecv' = [s \in ShardIds |-> "none"]
    /\ lastFlush' = [s \in ShardIds |-> "none"]
    /\ lastEvent' = NoEvent
    /\ before' = [s \in ShardIds |-> 0]
    /\ running' = TRUE
    /\ lastErr' = "none"
    /\ db' = "-1"
    /\ conn' = [s \in ShardIds |-> NoConn]
    /\ intent' = [s \in ShardIds |-> TargetDb]
    /\ lastAcq' = [s \in ShardIds |-> NoAcq]
    /\ recvDb' = [s \in ShardIds |-> <<>>]
    /\ UNCHANGED <<cfgVars, meta_file, lastSave>>

\* ---------------------------------------------------------- initial states
\* The state after run() has built the dispatcher and spawned the workers:
\* empty channels, empty batches, timers just started, no checkpoint file.
InitRun ==
    /\ spc = "pump"
    /\ repl_offset = 0
    /\ checkpoint = -1
    /\ chan = [s \in ShardIds |-> <<>>]
    /\ pipeline = [s \in ShardIds |-> <<>>]
    /\ count = [s \in ShardIds |-> 0]
    /\ elapsed = [s \in ShardIds |-> 0]
    /\ shutdown = [s \in ShardIds |-> FALSE]
    /\ wpc = [s \in ShardIds |-> "recv"]
    /\ sent = [s \in ShardIds |-> <<>>]
    /\ flushed = [s \in ShardIds |-> <<>>]
    /\ lastRecv = [s \in ShardIds |-> "none"]
    /\ lastFlush = [s \in ShardIds |-> "none"]
    /\ lastEvent = NoEvent
    /\ before = [s \in ShardIds |-> 0]
    /\ meta_file = NoFile
    /\ repl_id = <<"?">>
    /\ lastSave = NoSave
    /\ running = TRUE
    /\ lastErr = "none"
    /\ db = "-1"
    /\ conn = [s \in ShardIds |-> NewConn]
    /\ intent = [s \in ShardIds |-> TargetDb]
    /\ lastAcq = [s \in ShardIds |-> NoAcq]
    /\ recvDb = [s \in ShardIds |-> <<>>]

\* parse_args and new_sharded for `t' targets: the options, and the ring built
\* from the hashes vh of the virtual node names.
InitSharded(ts, args, intervals, vhs, khs) ==
    /\ mode = "sharding"
    /\ targets \in ts
    /\ batch_arg \in args
    /\ batch_size = ParseBatchSize(batch_arg)
    /\ flush_interval \in intervals
    /\ \E vh \in vhs[targets] : nodes = NewShardedNodes(vh, 0, targets, <<>>)
    /\ keyHash \in khs

\* parse_args and new_cluster: one worker, no ring, no batching.
InitCluster ==
    /\ mode = "cluster"
    /\ targets = 1
    /\ batch_arg = [present |-> FALSE, ok |-> FALSE, size |-> 0]
    /\ batch_size = ParseBatchSize(batch_arg)
    /\ flush_interval = 2
    /\ nodes = <<>>
    /\ keyHash = [k \in Keys |-> 0]

\* handler::new: one worker that owns its connection and flushes every 100 ms
\* (two ticks here); no ring, no batch size.
InitStandalone ==
    /\ mode = "standalone"
    /\ targets = 1
    /\ batch_arg = [present |-> FALSE, ok |-> FALSE, size |-> 0]
    /\ batch_size = ParseBatchSize(batch_arg)
    /\ flush_interval = 2
    /\ nodes = <<>>
    /\ keyHash = [k \in Keys |-> 0]

AllHashes == [t \in 1..Cardinality(ShardIds) |-> [VNodeNames(t) -> HashSpace]]
OneHash == [t \in 1..Cardinality(ShardIds) |-> {[x \in VNodeNames(t) |-> 0]}]

\* ------------------------------------------------------------- event sets
EvKeys(verb, keys) == Ev("AOF", verb, keys, <<>>, "")
WorkerEvents == {EvKeys("DEL", <<"k1">>)}

\* ------------------------------------------------------------------- Spec
\* One worker under the supervisor: sharded mode with a single target, or
\* cluster mode; every batch size and flush interval.
Init ==
    /\ InitRun
    /\ \/ InitSharded({1}, BatchArgs, FlushIntervals, OneHash, {[k \in Keys |-> 0]})
       \/ InitCluster

Pump == \E e \in WorkerEvents : Handle(e)

Next ==
    \/ Pump
    \/ StopPump
    \/ SaveReplMeta
    \/ DropSendTerminate
    \/ DropJoin
    \/ \E w \in ShardIds : WorkerRecv(w)
    \/ \E w \in ShardIds : WorkerFlush(w)
    \/ \E w \in ShardIds : ClusterWorker(w)

Spec == Init /\ [][Next]_vars

\* ------------------------------------------------------------ SpecSharded
\* The sharded dispatcher alone, for one or two targets, every ring the hash
\* function can produce and every hash of the routing keys: it handles events
\* and the channels collect what it sends.
ShardedEvents ==
    {Ev("RDB", "String", <<k>>, <<"v1", "100">>, x) : k \in Keys, x \in {"", "S", "MS"}}
    \cup {Ev("AOF", "SET", <<k>>, <<"v1">>, "") : k \in Keys}
    \cup {EvKeys(v, ks) : v \in ExpandKeyVerbs,
                          ks \in {<<"k1">>, <<"k1", "k2">>, <<"k2", "k1">>}}
    \cup {Ev("AOF", v, ks, <<"v1", "v2">>, "") : v \in ExpandPairVerbs,
                          ks \in {<<"k1", "k2">>, <<"k2", "k1">>}}
    \cup {Ev("AOF", "SELECT", <<>>, <<"1">>, ""),
          Ev("AOF", "SCRIPTFLUSH", <<>>, <<>>, ""),
          Ev("AOF", "SCRIPTLOAD", <<>>, <<"return 1">>, ""),
          Ev("AOF", "SWAPDB", <<>>, <<"0", "1">>, "")}
    \cup {Ev("AOF", v, <<>>, <<>>, a) : v \in {"FLUSHDB", "FLUSHALL"}, a \in {"", "ASYNC"}}
    \cup {Ev("AOF", "XGROUP", <<k>>, <<"g1", "0-1">>, sub) :
              k \in {"k1"}, sub \in {"CREATE", "SETID", "DESTROY", "DELCONSUMER"}}
    \cup {Ev("AOF", v, <<>>, <<>>, "") : v \in {"BITOP", "MULTI"}}

InitShardedMode ==
    /\ InitRun
    /\ InitSharded({1, 2}, {[present |-> FALSE, ok |-> FALSE, size |-> 0]}, {2},
                   AllHashes, [Keys -> HashSpace])

Route == \E e \in ShardedEvents : repl_offset < MaxRouted /\ Handle(e)

NextSharded == Route

SpecSharded == InitShardedMode /\ [][NextSharded]_vars

\* ------------------------------------------------------------- SpecFanout
\* Two shards with their workers running: k1 is routed to shard 0 and k2 to
\* shard 1, and FLUSHDB is broadcast.
FanoutEvents ==
    {EvKeys("DEL", <<"k1">>), Ev("AOF", "FLUSHDB", <<>>, <<>>, "")}

FanoutHash == [t \in 1..Cardinality(ShardIds) |-> {[x \in VNodeNames(t) |-> x[1]]}]

InitFanout ==
    /\ InitRun
    /\ InitSharded({2}, {[present |-> TRUE, ok |-> TRUE, size |-> 2]}, {0},
                   FanoutHash, {[k \in Keys |-> IF k = "k1" THEN 0 ELSE 1]})

PumpFanout == \E e \in FanoutEvents : repl_offset < MaxFanout /\ Handle(e)

NextFanout ==
    \/ PumpFanout
    \/ StopPump
    \/ SaveWritten
    \/ DropSendTerminate
    \/ DropJoin
    \/ \E w \in ShardIds : WorkerRecv(w)
    \/ \E w \in ShardIds : WorkerFlush(w)

SpecFanout == InitFanout /\ [][NextFanout]_vars

\* ------------------------------------------------------------- SpecRouted
\* Either routed dispatcher alone (sharded with one or two targets, or
\* cluster) handling two events in a row on a fixed ring.
DroppedEvents ==
    {Ev("AOF", v, <<"k1">>, <<"v1">>, "") :
        v \in {"BITOP", "EVAL", "EVALSHA", "PFMERGE", "SDIFFSTORE", "SINTERSTORE",
               "SUNIONSTORE", "ZUNIONSTORE", "ZINTERSTORE", "PUBLISH"}}
    \cup {Ev("AOF", v, <<>>, <<>>, "") : v \in {"MULTI", "EXEC"}}

ClusterEvents ==
    {EvKeys(v, ks) : v \in ExpandKeyVerbs,
                     ks \in {<<"k1">>, <<"k1", "k2">>, <<"k2", "k1">>}}
    \cup {Ev("AOF", v, ks, <<"v1", "v2">>, "") : v \in ExpandPairVerbs,
                     ks \in {<<"k1", "k2">>, <<"k2", "k1">>}}
    \cup DroppedEvents

RoutedEvents ==
    IF mode = "cluster" THEN ClusterEvents ELSE ShardedEvents \cup DroppedEvents

InitRouted ==
    /\ InitRun
    /\ \/ InitSharded({1, 2}, {[present |-> FALSE, ok |-> FALSE, size |-> 0]}, {2},
                      FanoutHash, {[k \in Keys |-> IF k = "k1" THEN 0 ELSE 1]})
       \/ InitCluster

RouteAny == \E e \in RoutedEvents : repl_offset < MaxDispatched /\ Handle(e)

NextRouted == RouteAny

SpecRouted == InitRouted /\ [][NextRouted]_vars

\* -------------------------------------------------------------- SpecAbort
\* Workers that may die while the dispatcher is handling events: two shards
\* or the cluster worker; a failed send unwinds the dispatcher.
AbortEvents == IF mode = "cluster" THEN WorkerEvents ELSE FanoutEvents

InitAbort ==
    /\ InitRun
    /\ \/ InitSharded({2}, {[present |-> FALSE, ok |-> FALSE, size |-> 0]}, {0},
                      FanoutHash, {[k \in Keys |-> IF k = "k1" THEN 0 ELSE 1]})
       \/ InitCluster

PumpAbort == \E e \in AbortEvents : repl_offset < MaxFanout /\ Handle(e)

NextAbort ==
    \/ PumpAbort
    \/ DropSendTerminate
    \/ DropJoin
    \/ \E w \in ShardIds : WorkerPanics(w)
    \/ \E w \in ShardIds : WorkerRecv(w)
    \/ \E w \in ShardIds : WorkerFlush(w)
    \/ \E w \in ShardIds : ClusterWorker(w)

SpecAbort == InitAbort /\ [][NextAbort]_vars

\* ----------------------------------------------------------- SpecInflight
\* One pooled worker under the supervisor, with the execution of a pipeline
\* split into its call and its return, so that other threads take steps
\* while a pipeline is in flight.
InitInflight ==
    /\ InitRun
    /\ InitSharded({1}, BatchArgs, FlushIntervals, OneHash, {[k \in Keys |-> 0]})

NextInflight ==
    \/ Pump
    \/ StopPump
    \/ SaveReplMeta
    \/ DropSendTerminate
    \/ DropJoin
    \/ \E w \in ShardIds : WorkerRecv(w)
    \/ \E w \in ShardIds : FlushBegin(w)
    \/ \E w \in ShardIds : FlushEnd(w)

SpecInflight == InitInflight /\ [][NextInflight]_vars

\* -------------------------------------------------------------- SpecBurst
\* One pooled worker under the supervisor; every event enqueues two requests
\* back to back on the worker's channel.
BurstEvents == {EvKeys("DEL", <<"k1", "k2">>)}

PumpBurst == \E e \in BurstEvents : repl_offset < MaxBursts /\ Handle(e)

NextBurst ==
    \/ PumpBurst
    \/ StopPump
    \/ SaveWritten
    \/ DropSendTerminate
    \/ DropJoin
    \/ \E w \in ShardIds : WorkerRecv(w)
    \/ \E w \in ShardIds : WorkerFlush(w)

SpecBurst == InitInflight /\ [][NextBurst]_vars

\* ----------------------------------------------------------- SpecShutdown
\* One worker under the supervisor, pooled or standalone, from start to
\* shutdown.
InitShutdown ==
    /\ InitRun
    /\ \/ InitSharded({1}, {[present |-> FALSE, ok |-> FALSE, size |-> 0]},
                      FlushIntervals, OneHash, {[k \in Keys |-> 0]})
       \/ InitStandalone

NextShutdown ==
    \/ Pump
    \/ StopPump
    \/ SaveReplMeta
    \/ DropSendTerminate
    \/ DropJoin
    \/ \E w \in ShardIds : WorkerRecv(w)
    \/ \E w \in ShardIds : WorkerFlush(w)
    \/ \E w \in ShardIds : StandaloneRecv(w)
    \/ \E w \in ShardIds : StandaloneFlush(w)

SpecShutdown == InitShutdown /\ [][NextShutdown]_vars

\* --------------------------------------------------------------- SpecRing
\* The sharded dispatcher with the routing table as murmur_hash64a builds it:
\* the names SHARD-i-NODE-n are distinct strings with distinct 64-bit hashes,
\* so the positions of the virtual nodes are drawn from the injections.
RingSpace == 0..(Cardinality(ShardIds) * VNodes)

DistinctHashes ==
    [t \in 1..Cardinality(ShardIds) |->
        {f \in [VNodeNames(t) -> RingSpace] :
            \A x, y \in VNodeNames(t) : x # y => f[x] # f[y]}]

RingEvents ==
    {Ev("AOF", "SET", <<"k1">>, <<"v1">>, ""),
     EvKeys("DEL", <<"k1", "k2">>),
     Ev("AOF", "FLUSHDB", <<>>, <<>>, "")}

InitRing ==
    /\ InitRun
    /\ InitSharded({1, 2}, {[present |-> FALSE, ok |-> FALSE, size |-> 0]}, {2},
                   DistinctHashes,
                   {[k \in Keys |-> IF k = "k1" THEN 0 ELSE Cardinality(ShardIds) * VNodes]})

RouteRing == \E e \in RingEvents : repl_offset < MaxDispatched /\ Handle(e)

NextRing == RouteRing

SpecRing == InitRing /\ [][NextRing]_vars

\* --------------------------------------------------------- SpecCheckpoint
\* save_repl_meta and load_repl_meta over runs of the program that follow one
\* another: a checkpoint file left by anything, and an upstream that reports
\* any replication id and offset.  The mode is the one with the simplest
\* worker.
MetaFiles ==
    {NoFile, File(<<>>), File(<<"a">>),
     File(<<"a", ",", "5">>), File(<<",", "5">>), File(<<"a", ",", "+", "5">>),
     File(<<"a", ",", "-", "1", "2", "8">>),
     File(<<"a", ",", "b", ",", "5">>), File(<<"a", ",", "x">>),
     File(<<"a", ",">>), File(<<"a", ",", "-">>), File(<<"a", ",", "5", "x">>),
     File(<<"a", ",", "1", "2", "8">>), File(<<"a", ",", "9", "9", "9">>)}

InitProcess(files) ==
    /\ spc = "config"
    /\ repl_offset = -1
    /\ repl_id = <<"?">>
    /\ checkpoint = -1
    /\ meta_file \in files
    /\ lastSave = NoSave
    /\ running = TRUE
    /\ lastErr = "none"
    /\ db = "-1"
    /\ conn = [s \in ShardIds |-> NoConn]
    /\ intent = [s \in ShardIds |-> TargetDb]
    /\ lastAcq = [s \in ShardIds |-> NoAcq]
    /\ recvDb = [s \in ShardIds |-> <<>>]
    /\ chan = [s \in ShardIds |-> <<>>]
    /\ pipeline = [s \in ShardIds |-> <<>>]
    /\ count = [s \in ShardIds |-> 0]
    /\ elapsed = [s \in ShardIds |-> 0]
    /\ shutdown = [s \in ShardIds |-> FALSE]
    /\ wpc = [s \in ShardIds |-> "unborn"]
    /\ sent = [s \in ShardIds |-> <<>>]
    /\ flushed = [s \in ShardIds |-> <<>>]
    /\ lastRecv = [s \in ShardIds |-> "none"]
    /\ lastFlush = [s \in ShardIds |-> "none"]
    /\ lastEvent = NoEvent
    /\ before = [s \in ShardIds |-> 0]

InitCheckpoint ==
    /\ InitProcess(MetaFiles)
    /\ InitCluster

NextCheckpoint ==
    \/ NewRedisListenerConfig
    \/ BuildHandler
    \/ LoopCheck
    \/ Replicate
    \/ StopPump
    \/ SaveReplMeta
    \/ DropSendTerminate
    \/ DropJoin
    \/ Rerun
    \/ \E w \in ShardIds : ClusterWorker(w)

SpecCheckpoint == InitCheckpoint /\ [][NextCheckpoint]_vars

\* ---------------------------------------------------------------- SpecRun
\* The whole process in every mode the flags can ask for, from the entry of
\* run() to the exit: the restart loop, Ctrl-C, connection errors of the
\* pool, one upstream event.
MaxRunEvents == 1

\* parse_args with both --sharding and --cluster.
InitBoth ==
    /\ mode = "both"
    /\ targets = 1
    /\ batch_arg = [present |-> FALSE, ok |-> FALSE, size |-> 0]
    /\ batch_size = ParseBatchSize(batch_arg)
    /\ flush_interval = 2
    /\ nodes = <<>>
    /\ keyHash = [k \in Keys |-> 0]

InitAnyRun ==
    /\ InitProcess({NoFile})
    /\ \/ InitSharded({1}, {[present |-> FALSE, ok |-> FALSE, size |-> 0]}, {2},
                      OneHash, {[k \in Keys |-> 0]})
       \/ InitCluster
       \/ InitStandalone
       \/ InitBoth

PumpRun == \E e \in WorkerEvents : repl_offset + 1 < MaxRunEvents /\ Handle(e)

NextRun ==
    \/ NewRedisListenerConfig
    \/ BuildHandler
    \/ LoopCheck
    \/ ListenerStartErr
    \/ ListenerNoPerm
    \/ CtrlC
    \/ PumpRun
    \/ StopPump
    \/ SaveReplMeta
    \/ DropSendTerminate
    \/ DropJoin
    \/ \E w \in ShardIds : HandleError(w)
    \/ \E w \in ShardIds : WorkerRecv(w)
    \/ \E w \in ShardIds : WorkerFlush(w)
    \/ \E w \in ShardIds : ClusterWorker(w)
    \/ \E w \in ShardIds : StandaloneRecv(w)
    \/ \E w \in ShardIds : StandaloneFlush(w)

SpecRun == InitAnyRun /\ [][NextRun]_vars

\* ----------------------------------------------------------- SpecSnapshot
\* The dispatcher of each mode alone, handed snapshot objects of every type,
\* in two dbs, with and without an expiry.
MaxSnapshot == 2

SnapshotEvents ==
    {InDb(Ev("RDB", t, <<"k1">>, <<"v1", "100">>, x), d) :
        t \in PlainTypes, x \in {"", "S", "MS"}, d \in {"0", "1"}}
    \cup {InDb(Stream("k1", "v1", "100", x, <<"1-0", "2-0">>, <<"g1">>), d) :
        x \in {"", "S", "MS"}, d \in {"0", "1"}}
    \cup {Ev("RDB", "Module", <<"k1">>, <<"v1", "100">>, "")}

InitSnapshot ==
    /\ InitRun
    /\ \/ InitStandalone
       \/ InitCluster
       \/ InitSharded({1, 2}, {[present |-> FALSE, ok |-> FALSE, size |-> 0]}, {2},
                      OneHash, {[k \in Keys |-> 0]})

RouteSnapshot == \E e \in SnapshotEvents : repl_offset < MaxSnapshot /\ Handle(e)

NextSnapshot == RouteSnapshot

SpecSnapshot == InitSnapshot /\ [][NextSnapshot]_vars

\* ----------------------------------------------------------- SpecMutation
\* The dispatcher of each mode alone, handed commands of the replication
\* stream that the converter maps to one request each.
MaxMutations == 2

MutationEvents ==
    {Ev("AOF", "SET", <<"k1">>, <<"v1">>, ""),
     Ev("AOF", "APPEND", <<"k1">>, <<"v1">>, ""),
     Ev("AOF", "DECR", <<"k1">>, <<>>, ""),
     Ev("AOF", "INCR", <<"k1">>, <<>>, ""),
     Ev("AOF", "PERSIST", <<"k1">>, <<>>, ""),
     Ev("AOF", "EXPIRE", <<"k1">>, <<"10">>, ""),
     Ev("AOF", "EXPIREAT", <<"k1">>, <<"100">>, ""),
     Ev("AOF", "PEXPIRE", <<"k1">>, <<"1000">>, ""),
     Ev("AOF", "PEXPIREAT", <<"k1">>, <<"1000">>, ""),
     Ev("AOF", "SETEX", <<"k1">>, <<"10", "v1">>, ""),
     Ev("AOF", "LPUSH", <<"k1">>, <<"v1", "v2">>, ""),
     Ev("AOF", "RENAME", <<"k1", "k2">>, <<>>, ""),
     Ev("AOF", "ZUNIONSTORE", <<"k1", "k2">>, <<"1">>, ""),
     Ev("AOF", "ZINTERSTORE", <<"k1", "k2">>, <<"1">>, "")}

\* The byte strings execute() may hash: the keys and a first argument that is
\* no key.
RoutedArgs == Keys \cup {"1000"}

InitMutation ==
    /\ InitRun
    /\ \/ InitStandalone
       \/ InitCluster
       \/ InitSharded({1, 2}, {[present |-> FALSE, ok |-> FALSE, size |-> 0]}, {2},
                      OneHash, {[k \in RoutedArgs |-> 0]})

RouteMutation == \E e \in MutationEvents : repl_offset < MaxMutations /\ Handle(e)

NextMutation == RouteMutation

SpecMutation == InitMutation /\ [][NextMutation]_vars

\* ------------------------------------------------------------ observations
\* The requests that reached the target on a worker's connection, over all
\* executed pipelines in order.
RECURSIVE ExecutedOf(_)
ExecutedOf(fs) ==
    IF fs = <<>> THEN <<>>
    ELSE SubSeq(Head(fs).batch, 1, Head(fs).applied) \o ExecutedOf(Tail(fs))
Executed(w) == ExecutedOf(flushed[w])

\* The requests handed to pipeline.query / cmd.query, in order.
RECURSIVE SubmittedOf(_)
SubmittedOf(fs) ==
    IF fs = <<>> THEN <<>> ELSE Head(fs).batch \o SubmittedOf(Tail(fs))
Submitted(w) == SubmittedOf(flushed[w])

Positions(ms) == {ms[i].n : i \in 1..Len(ms)}
PosOf(ms, n) == CHOOSE i \in 1..Len(ms) : ms[i].n = n

\* What the event handled last appended to the channel of shard s.
Delta(s) == SubSeq(sent[s], before[s] + 1, Len(sent[s]))
DeltaCmds(s) == [i \in 1..Len(Delta(s)) |-> Delta(s)[i].cmd]

\* The shard a routing key is sent to by the dispatcher.
RouteOf(k) == IF GetShard(k) = NoShard THEN FirstSender ELSE GetShard(k)

\* The owner of the ring entry with the smallest hash >= hash(k), wrapping to
\* the entry with the minimum hash.
RingOwner(k) ==
    LET tail == {h \in DOMAIN nodes : h >= keyHash[k]}
        from == IF tail # {} THEN tail ELSE DOMAIN nodes
    IN  nodes[CHOOSE h \in from : \A g \in from : h <= g]

\* ------------------------------------------------------------------ claims

\* C1: per-target FIFO.  For every worker (pooled and cluster) the requests
\* executed on its connection, over all pipelines in order, are requests the
\* dispatcher sent on its channel, each at most once and in the order of the
\* enqueue stream.
FifoPerWorker ==
    \A w \in ShardIds :
        LET ex == Executed(w)
        IN  /\ \A i \in 1..Len(ex) :
                  /\ ex[i].n \in 1..Len(sent[w])
                  /\ sent[w][ex[i].n] = ex[i]
            /\ \A i, j \in 1..Len(ex) : i < j => ex[i].n < ex[j].n

\* C1 witness: a pooled worker executed the first and the third request of
\* its stream, the pipeline holding the second one having failed.
FifoWitness ==
    \E w \in Active :
        /\ mode = "sharding"
        /\ Len(sent[w]) = 3
        /\ Len(Executed(w)) = 2
        /\ Positions(Executed(w)) = {1, 3}

\* C2: drain on shutdown.  When a worker's thread has exited, its channel and
\* its batch are empty and every request enqueued to it was submitted to the
\* target in a pipeline.
DrainOnShutdown ==
    \A w \in Active :
        wpc[w] = "done" =>
            /\ chan[w] = <<>>
            /\ pipeline[w] = <<>>
            /\ Positions(Submitted(w)) = 1..Len(sent[w])

\* C3: at-least-once.  When run() has returned, every request that came from
\* an upstream event at or below the persisted offset has reached its target.
AtLeastOnce ==
    spc = "returned" =>
        \A w \in Active : \A i \in 1..Len(sent[w]) :
            sent[w][i].off <= checkpoint => i \in Positions(Executed(w))

\* C4 as stated: a batch that has reached batch_size is flushed for that
\* reason; after the flush step a full batch remains only when the connection
\* could not be acquired.
FlushOnSizeOrTime ==
    \A w \in Active :
        (mode = "sharding" /\ wpc[w] # "check" /\ batch_size > 0
            /\ count[w] >= batch_size) => lastFlush[w] = "acquire_err"

\* C4 as amended: batch_size only caps the batch; every pipeline is executed
\* when flush_interval has elapsed or shutdown was requested, never for being
\* full; and a non-empty batch that is due by time or shutdown is left
\* unflushed by the flush step only when the connection could not be acquired.
FlushOnTimeOnly ==
    \A w \in Active :
        mode = "sharding" =>
            /\ batch_size > 0 => count[w] <= batch_size
            /\ count[w] = Len(pipeline[w])
            /\ \A i \in 1..Len(flushed[w]) :
                  flushed[w][i].timed \/ flushed[w][i].shut
            /\ (wpc[w] # "check" /\ count[w] > 0
                  /\ (elapsed[w] >= flush_interval \/ shutdown[w]))
                  => lastFlush[w] = "acquire_err"

\* C4 witness: a batch of batch_size requests had to wait (the receive was
\* skipped) and was then executed when flush_interval had elapsed.
FullBatchWaits ==
    \E w \in Active :
        /\ mode = "sharding"
        /\ batch_size > 0
        /\ lastRecv[w] = "skipped"
        /\ lastFlush[w] = "ok"
        /\ flushed[w] # <<>>
        /\ Len(flushed[w][Len(flushed[w])].batch) = batch_size
        /\ flushed[w][Len(flushed[w])].timed

\* C5: a worker configured with -p 0 or a negative -p has an unbounded batch:
\* every pass of its loop attempts a receive whatever the batch length, and
\* its pipelines are executed only on flush_interval or shutdown.
UnboundedBatch ==
    \A w \in Active :
        (mode = "sharding" /\ batch_arg.present /\ batch_arg.ok
            /\ batch_arg.size <= 0) =>
            /\ WantsRecv(w)
            /\ lastRecv[w] # "skipped"
            /\ \A i \in 1..Len(flushed[w]) :
                  flushed[w][i].timed \/ flushed[w][i].shut

\* C5 witness: with -p 0 the worker received a request into a batch that
\* already held two.
UnboundedWitness ==
    \E w \in Active :
        /\ mode = "sharding"
        /\ batch_arg.present /\ batch_arg.size = 0
        /\ lastRecv[w] = "Cmd"
        /\ count[w] = 3

\* C6: broadcast in sharded mode.  After an administrative event (SELECT db,
\* SCRIPT FLUSH, SCRIPT LOAD, SWAPDB, FLUSHDB [ASYNC], FLUSHALL [ASYNC]) every
\* shard's channel has received exactly one request, with the verb and the
\* arguments of the event; none is left out as routing by key would do.
BroadcastToEveryShard ==
    (lastEvent.src = "AOF" /\ lastEvent.verb \in BroadcastVerbs) =>
        LET e == lastEvent
            async == IF e.opt = "ASYNC" THEN <<"ASYNC">> ELSE <<>>
            want ==
                CASE e.verb = "SELECT" -> [verb |-> "SELECT", args |-> <<e.vals[1]>>]
                  [] e.verb = "SCRIPTFLUSH" -> [verb |-> "SCRIPT", args |-> <<"FLUSH">>]
                  [] e.verb = "SCRIPTLOAD" ->
                        [verb |-> "SCRIPT", args |-> <<"LOAD", e.vals[1]>>]
                  [] e.verb = "SWAPDB" ->
                        [verb |-> "SWAPDB", args |-> <<e.vals[1], e.vals[2]>>]
                  [] e.verb = "FLUSHDB" -> [verb |-> "FLUSHDB", args |-> async]
                  [] e.verb = "FLUSHALL" -> [verb |-> "FLUSHALL", args |-> async]
        IN  \A s \in Active : DeltaCmds(s) = <<want>>

\* C6 witness: FLUSHDB ASYNC was handled with two shards and both channels
\* received it.
BroadcastWitness ==
    /\ targets = 2
    /\ lastEvent.verb = "FLUSHDB"
    /\ lastEvent.opt = "ASYNC"
    /\ \A s \in {0, 1} : DeltaCmds(s) = <<Cmd("FLUSHDB", <<"ASYNC">>)>>

RingLookupWraps ==
    (lastEvent.src = "AOF" /\ lastEvent.verb = "SET") =>
        LET k == lastEvent.keys[1]
        IN  \A s \in Active :
                Len(Delta(s)) = (IF s = RingOwner(k) THEN 1 ELSE 0)

\* C9: a keyed request goes to exactly one shard.  After an event that is
\* neither broadcast nor dropped, every key of the event has its requests on
\* the channel of exactly one shard, and no request was sent twice: a
\* snapshot string yields its set (and its expiry) on one shard and nothing
\* on the other.
KeyedToExactlyOneShard ==
    LET e == lastEvent
        keyed == \/ e.src = "RDB"
                 \/ e.src = "AOF" /\ e.verb \notin (BroadcastVerbs \cup DroppedVerbs)
        holds(s, k) ==
            \E i \in 1..Len(Delta(s)) :
                \E a \in 1..Len(Delta(s)[i].cmd.args) : Delta(s)[i].cmd.args[a] = k
        perKey == IF e.src = "RDB" /\ e.opt # "" THEN 2 ELSE 1
    IN  keyed =>
            /\ \A i \in 1..Len(e.keys) :
                  Cardinality({s \in Active : holds(s, e.keys[i])}) = 1
            /\ Len(Delta(0)) + Len(Delta(1)) = perKey * Len(e.keys)
            /\ e.src = "RDB" =>
                  \E s \in Active :
                      /\ Len(Delta(s)) = perKey
                      /\ Delta(s)[1].cmd = [verb |-> "set", args |-> <<e.keys[1], e.vals[1]>>]
                      /\ \A t \in ShardIds \ {s} : Delta(t) = <<>>

\* C9 witness: a snapshot string with an expiry was copied to two shards;
\* shard 1 received its set and its EXPIREAT and shard 0 received nothing.
KeyedWitness ==
    /\ targets = 2
    /\ lastEvent.src = "RDB"
    /\ lastEvent.opt = "S"
    /\ Delta(0) = <<>>
    /\ DeltaCmds(1) = <<Cmd("set", <<lastEvent.keys[1], "v1">>),
                        Cmd("EXPIREAT", <<lastEvent.keys[1], "100">>)>>

\* C10: multi-key expansion.  DEL, UNLINK or PFCOUNT with n keys yields n
\* single-key requests of that verb and MSET (MSETNX) with n pairs yields n
\* SET k v (SETNX k v); each shard receives, in the original order, exactly
\* the requests whose own key routes to it.
ExpansionPerKey ==
    LET e == lastEvent
        n == Len(e.keys)
        single == [i \in 1..n |->
                     IF e.verb = "MSET"
                     THEN [verb |-> "SET", args |-> <<e.keys[i], e.vals[i]>>]
                     ELSE IF e.verb = "MSETNX"
                     THEN [verb |-> "SETNX", args |-> <<e.keys[i], e.vals[i]>>]
                     ELSE [verb |-> e.verb, args |-> <<e.keys[i]>>]]
        mine(s) == SelectSeq(single, LAMBDA c : RouteOf(c.args[1]) = s)
    IN  (e.src = "AOF" /\ e.verb \in {"DEL", "UNLINK", "PFCOUNT", "MSET", "MSETNX"}) =>
            /\ \A s \in Active : DeltaCmds(s) = mine(s)
            /\ Len(Delta(0)) + Len(Delta(1)) = n

\* C10 witness: DEL k1 k2 with k1 on shard 0 and k2 on shard 1: each shard
\* received one DEL with its own key.
ExpansionWitness ==
    /\ targets = 2
    /\ lastEvent.verb = "DEL"
    /\ lastEvent.keys = <<"k1", "k2">>
    /\ DeltaCmds(0) = <<Cmd("DEL", <<"k1">>)>>
    /\ DeltaCmds(1) = <<Cmd("DEL", <<"k2">>)>>

\* C11: drop policy in routed modes.  In sharded mode and in cluster mode an
\* event that is BITOP, EVAL, EVALSHA, MULTI, EXEC, PFMERGE, SDIFFSTORE,
\* SINTERSTORE, SUNIONSTORE, ZUNIONSTORE, ZINTERSTORE or PUBLISH enqueues no
\* request: every worker channel is as it was before the event.
DropLeavesChannels ==
    (lastEvent.src = "AOF"
        /\ lastEvent.verb \in {"BITOP", "EVAL", "EVALSHA", "MULTI", "EXEC", "PFMERGE",
                               "SDIFFSTORE", "SINTERSTORE", "SUNIONSTORE",
                               "ZUNIONSTORE", "ZINTERSTORE", "PUBLISH"}) =>
        \A s \in ShardIds :
            /\ Delta(s) = <<>>
            /\ chan[s] = SubSeq(sent[s], 1, before[s])

\* C11 witness: the cluster dispatcher handled PUBLISH after an event that
\* had enqueued a request, and the channel still holds just that request.
DropWitness ==
    /\ mode = "cluster"
    /\ lastEvent.verb = "PUBLISH"
    /\ Len(chan[0]) = 1
    /\ before[0] = 1

\* C12 as stated: in cluster mode a DEL, UNLINK, PFCOUNT, MSET or MSETNX
\* naming n keys is forwarded to the cluster worker as one request of that
\* verb carrying all n keys.
ClusterForwardsWhole ==
    (mode = "cluster" /\ lastEvent.src = "AOF"
        /\ lastEvent.verb \in {"DEL", "UNLINK", "PFCOUNT", "MSET", "MSETNX"}) =>
        /\ Len(Delta(0)) = 1
        /\ Delta(0)[1].cmd.verb = lastEvent.verb
        /\ \A i \in 1..Len(lastEvent.keys) :
              \E a \in 1..Len(Delta(0)[1].cmd.args) :
                  Delta(0)[1].cmd.args[a] = lastEvent.keys[i]

\* C12 as amended: the cluster dispatcher expands as the sharded one does.  A
\* DEL, UNLINK or PFCOUNT naming n keys is sent to the cluster worker as n
\* single-key requests of that verb, and an MSET (MSETNX) with n pairs as n
\* SET k v (SETNX k v), in the original key order.
ClusterExpandsPerKey ==
    LET e == lastEvent
        single == [i \in 1..Len(e.keys) |->
                     IF e.verb = "MSET"
                     THEN [verb |-> "SET", args |-> <<e.keys[i], e.vals[i]>>]
                     ELSE IF e.verb = "MSETNX"
                     THEN [verb |-> "SETNX", args |-> <<e.keys[i], e.vals[i]>>]
                     ELSE [verb |-> e.verb, args |-> <<e.keys[i]>>]]
    IN  (mode = "cluster" /\ e.src = "AOF"
            /\ e.verb \in {"DEL", "UNLINK", "PFCOUNT", "MSET", "MSETNX"}) =>
            DeltaCmds(0) = single

\* C12 witness: the cluster dispatcher handled DEL k1 k2 and sent DEL k1 and
\* then DEL k2 to its worker.
ClusterExpandWitness ==
    /\ mode = "cluster"
    /\ lastEvent.verb = "DEL"
    /\ lastEvent.keys = <<"k1", "k2">>
    /\ DeltaCmds(0) = <<Cmd("DEL", <<"k1">>), Cmd("DEL", <<"k2">>)>>

\* C13: pipeline execution failure.  Right after a flush step in which
\* pipeline.query returned an error the batch is empty, count is 0 and the
\* timer is restarted, and the worker goes on with its loop unless shutdown
\* was requested; no request is ever submitted in two pipelines.
DiscardOnQueryError ==
    \A w \in Active :
        mode = "sharding" =>
            /\ (wpc[w] # "check" /\ lastFlush[w] = "query_err") =>
                  /\ pipeline[w] = <<>>
                  /\ count[w] = 0
                  /\ elapsed[w] = 0
                  /\ ~shutdown[w] => wpc[w] = "recv"
            /\ \A a, b \in 1..Len(Submitted(w)) :
                  a # b => Submitted(w)[a].n # Submitted(w)[b].n

\* C13 witness: the first pipeline of a worker failed before any request of
\* it was applied, and a later pipeline with the request received afterwards
\* was executed.
DiscardWitness ==
    \E w \in Active :
        /\ mode = "sharding"
        /\ Len(flushed[w]) = 2
        /\ ~flushed[w][1].ok /\ flushed[w][1].applied = 0
        /\ flushed[w][2].ok
        /\ Positions(flushed[w][1].batch) = {1}
        /\ Positions(flushed[w][2].batch) = {2}

\* C14: a send on a closed channel.  When the dispatcher handles an event
\* that routes or broadcasts a request to a worker whose channel is closed,
\* it aborts; and once it has aborted no further event is dispatched: no
\* request is sent to any worker and no offset is advanced.
AbortOnClosedChannel ==
    [][LET e == lastEvent'
           handled == spc = "pump" /\ (repl_offset' # repl_offset \/ spc' = "aborted")
           gone(s) == wpc[s] \in {"dead", "done"}
           hitsClosed ==
               \/ mode = "cluster" /\ e.keys # <<>> /\ gone(0)
               \/ mode = "sharding" /\ e.verb = "FLUSHDB" /\ \E s \in Active : gone(s)
               \/ mode = "sharding" /\ e.verb = "DEL"
                      /\ \E i \in 1..Len(e.keys) : gone(RouteOf(e.keys[i]))
       IN  /\ handled => (hitsClosed <=> spc' = "aborted")
           /\ spc \in {"aborted", "unwinding", "exited"} =>
                 /\ sent' = sent
                 /\ repl_offset' = repl_offset
                 /\ lastEvent' = lastEvent
                 /\ spc' \in {"aborted", "unwinding", "exited"}
           /\ \A s \in ShardIds : gone(s) => sent'[s] = sent[s]
      ]_vars

\* C14 witness: shard 1 had died when FLUSHDB was broadcast; shard 0 was sent
\* the request, the send to shard 1 failed and the dispatcher aborted.
AbortWitness ==
    /\ mode = "sharding"
    /\ spc = "aborted"
    /\ wpc[1] = "dead"
    /\ lastEvent.verb = "FLUSHDB"
    /\ Len(Delta(0)) = 1
    /\ Delta(1) = <<>>

\* C15: at most one pipeline in flight per worker.  While a worker's pipeline
\* is executing, the worker takes nothing from its channel and its batch does
\* not change, and the only thing that reaches its connection is that one
\* pipeline; and nothing reaches a worker's connection other than a pipeline
\* of that worker that was in flight.
OnePipelineInFlight ==
    [][\A w \in Active :
          /\ wpc[w] = "query" =>
                /\ Len(chan'[w]) >= Len(chan[w])
                /\ SubSeq(chan'[w], 1, Len(chan[w])) = chan[w]
                /\ \/ /\ wpc'[w] = "query"
                      /\ pipeline'[w] = pipeline[w]
                      /\ flushed'[w] = flushed[w]
                   \/ /\ wpc'[w] # "query"
                      /\ Len(flushed'[w]) = Len(flushed[w]) + 1
                      /\ flushed'[w][Len(flushed'[w])].batch = pipeline[w]
          /\ flushed'[w] # flushed[w] => wpc[w] = "query"
      ]_vars

\* C15 witness: a request was enqueued to the worker while its pipeline was
\* in flight, and waits in the channel.
InFlightWitness ==
    \E w \in Active :
        /\ wpc[w] = "query"
        /\ pipeline[w] # <<>>
        /\ chan[w] # <<>>
        /\ Head(chan[w]).type = "Cmd"

\* C16 as stated: requests enqueued back to back (by one event), fewer than
\* batch_size, are executed in exactly one pipeline containing all of them,
\* whatever the state of the worker before the first of them.
BurstInOnePipeline ==
    \A w \in Active : \A f \in 1..Len(flushed[w]) :
        \A a \in 1..Len(flushed[w][f].batch) : \A i \in 1..Len(sent[w]) :
            LET burst == {j \in 1..Len(sent[w]) : sent[w][j].off = sent[w][i].off}
            IN  (sent[w][i].off = flushed[w][f].batch[a].off
                    /\ flush_interval > 0
                    /\ (batch_size < 0 \/ Cardinality(burst) < batch_size)) =>
                    i \in Positions(flushed[w][f].batch)

\* C16 as amended: the timer runs from the last flush (or the start of the
\* worker), not from the first request of a batch.  A pipeline is executed
\* only when flush_interval has passed since then (or at shutdown); it holds
\* every request received since the last flush, in enqueue order; afterwards
\* the batch is empty and the timer restarted.
FlushOnInterval ==
    \A w \in Active :
        LET cmds == SelectSeq(chan[w], LAMBDA m : m.type = "Cmd")
        IN  /\ Submitted(w) \o pipeline[w] \o cmds = sent[w]
            /\ \A f \in 1..Len(flushed[w]) :
                  /\ flushed[w][f].batch # <<>>
                  /\ flushed[w][f].timed \/ flushed[w][f].shut
            /\ (wpc[w] # "check" /\ lastFlush[w] \in {"ok", "query_err"}) =>
                  /\ pipeline[w] = <<>>
                  /\ count[w] = 0
                  /\ elapsed[w] = 0

\* C16 witness: two requests enqueued back to back were executed in one
\* pipeline when flush_interval had elapsed, with room left in the batch.
BurstWitness ==
    \E w \in Active :
        /\ flush_interval = 2
        /\ batch_size = DefaultBatchSize
        /\ Len(flushed[w]) = 1
        /\ Positions(flushed[w][1].batch) = {1, 2}
        /\ flushed[w][1].timed /\ ~flushed[w][1].shut
        /\ lastFlush[w] = "ok"
        /\ wpc[w] = "recv"

ImmediateFlush ==
    \A w \in Active :
        (mode = "sharding" /\ flush_interval = 0 /\ wpc[w] # "check") =>
            /\ pipeline[w] = <<>> \/ lastFlush[w] = "acquire_err"
            /\ \A f \in 1..Len(flushed[w]) : flushed[w][f].timed

\* C18 witness: with flush_interval = 0 a worker received two requests and
\* executed each in a pipeline of its own.
ImmediateWitness ==
    \E w \in Active :
        /\ mode = "sharding"
        /\ flush_interval = 0
        /\ Len(flushed[w]) = 2
        /\ Positions(flushed[w][1].batch) = {1}
        /\ Positions(flushed[w][2].batch) = {2}
        /\ wpc[w] = "recv"
        /\ ~shutdown[w]

\* C19: routing-table invariant.  In every state the routing table holds
\* exactly (virtual nodes per shard) x |shards| entries, every entry belongs
\* to a shard and every shard owns at least one entry; and no step, event
\* handling included, adds, removes or changes an entry.
RoutingTableInvariant ==
    /\ [](/\ Cardinality(DOMAIN nodes) = VNodes * targets
          /\ \A h \in DOMAIN nodes : nodes[h] \in Active
          /\ \A s \in Active : \E h \in DOMAIN nodes : nodes[h] = s)
    /\ [][nodes' = nodes]_vars

\* C19 witness: with two shards, after a keyed request and a broadcast were
\* handled, the table holds the entries of both shards.
RoutingTableWitness ==
    /\ targets = 2
    /\ repl_offset = 2
    /\ lastEvent.verb = "FLUSHDB"
    /\ sent[0] # <<>> /\ sent[1] # <<>>
    /\ Cardinality(DOMAIN nodes) = 2 * VNodes
    /\ {nodes[h] : h \in DOMAIN nodes} = {0, 1}

\* C20: checkpoint on exit.  Once the restart loop has ended and the save was
\* made, the checkpoint file holds the listener's current offset (or, the
\* write having failed, nothing); and the save comes before the dispatcher
\* is dropped: until it was made no worker has been sent Terminate or has
\* shut down, and the file is untouched while events are handled.
CheckpointOnExit ==
    LET terminating(w) ==
            \/ shutdown[w]
            \/ wpc[w] = "done"
            \/ \E i \in 1..Len(chan[w]) : chan[w][i].type = "Terminate"
    IN  /\ spc \in {"saved", "dropped", "returned"} => checkpoint \in {repl_offset, -1}
        /\ spc \in {"pump", "stopped"} =>
              /\ checkpoint = -1
              /\ \A w \in Active : ~terminating(w)
        /\ (\E w \in Active : terminating(w)) => spc \in {"dropped", "returned"}

\* C20 witness: the loop ended after two events, the offset 2 is in the
\* checkpoint file, and the worker has not been sent Terminate yet.
CheckpointWitness ==
    /\ spc = "saved"
    /\ repl_offset = 2
    /\ checkpoint = 2
    /\ \A w \in Active : ~shutdown[w] /\ wpc[w] # "done"
    /\ \A w \in Active : \A i \in 1..Len(chan[w]) : chan[w][i].type = "Cmd"

\* C21: checkpoint round trip.  In a run that follows a run whose
\* save_repl_meta wrote the file, the configuration handed to the upstream
\* client carries exactly the replication id and the offset that were saved,
\* whatever the file held before.
CheckpointRoundTrip ==
    (spc = "build" /\ lastSave.outcome = "written") =>
        /\ repl_id = lastSave.id
        /\ repl_offset = lastSave.offset

\* C21 for the ids a Redis master generates (no comma in them).
CheckpointRoundTripPlainId ==
    (spc = "build" /\ lastSave.outcome = "written"
        /\ \A i \in 1..Len(lastSave.id) : lastSave.id[i] # ",") =>
            /\ repl_id = lastSave.id
            /\ repl_offset = lastSave.offset

\* The commas of a text, and the text after its first comma.
CommaAt(t) == {i \in 1..Len(t) : t[i] = ","}
AfterComma(t) ==
    LET i == CHOOSE j \in CommaAt(t) : \A k \in CommaAt(t) : j <= k
    IN  SubSeq(t, i + 1, Len(t))
\* A text that is the decimal numeral of an i64, with or without a plus sign.
IsIntegerText(t) ==
    \E n \in I64Min..I64Max :
        \/ t = FormatI64(n)
        \/ n >= 0 /\ t = <<"+">> \o FormatI64(n)
Malformed(f) ==
    \/ ~f.exists
    \/ Cardinality(CommaAt(f.text)) # 1
    \/ ~IsIntegerText(AfterComma(f.text))

\* C22: checkpoint load failure.  When the checkpoint file is missing, does
\* not consist of exactly two comma-separated fields, or its second field is
\* not an i64, the configuration built from it has repl_id "?" and
\* repl_offset -1: nothing is taken from the file.
CheckpointLoadFailure ==
    (spc = "build" /\ Malformed(meta_file)) =>
        /\ repl_id = <<"?">>
        /\ repl_offset = -1

\* C22 witness: a file of two fields whose first is an id and whose second is
\* not an i64 was loaded, and the configuration asks for a full snapshot.
LoadFailureWitness ==
    /\ spc = "build"
    /\ meta_file.exists
    /\ Cardinality(CommaAt(meta_file.text)) = 1
    /\ meta_file.text[1] = "a"
    /\ ~IsIntegerText(AfterComma(meta_file.text))
    /\ repl_id = <<"?">>
    /\ repl_offset = -1

\* C23: checkpoint save failure.  When the process has exited after a
\* save_repl_meta that failed, the failure was logged and the exit status is
\* not zero.
SaveFailureExitsNonzero ==
    (ExitStatus >= 0 /\ lastSave.outcome \in {"untouched", "truncated"}) =>
        /\ lastSave.logged
        /\ ExitStatus # 0

\* C24: extension error escalation.  Once handle_error has been given
\* "extension error" the control flag is clear, also in the state in which
\* the panic has ended the calling thread, and from then on run() does not
\* call listener.start() again; a step in which handle_error is given any
\* other error leaves the flag as it was.
ExtensionErrorEscalation ==
    /\ [](lastErr = "extension error" => ~running)
    /\ [][/\ (lastErr' = "extension error" /\ spc # "pump") => spc' # "pump"
          /\ (lastErr' = "other" /\ lastErr # "other") => running' = running]_vars

\* C24 witness: the error reached the handler inside pool.get(), the worker's
\* thread is gone, the flag is clear and the restart loop has been left.
ExtensionWitness ==
    /\ lastErr = "extension error"
    /\ ~running
    /\ spc = "stopped"
    /\ \E w \in Active : wpc[w] = "dead"

\* C25: both flags.  With --sharding and --cluster together run() never gets
\* past the construction step: no worker thread exists, nothing is sent on any
\* channel and listener.start() is never called.
RejectBothFlags ==
    mode = "both" =>
        /\ spc \in {"config", "build", "rejected"}
        /\ \A s \in ShardIds :
              /\ wpc[s] = "unborn"
              /\ chan[s] = <<>>
              /\ sent[s] = <<>>

\* C25 witness: run() has panicked on the two flags.
RejectWitness ==
    /\ mode = "both"
    /\ spc = "rejected"
    /\ ExitStatus = 101
    /\ \A s \in ShardIds : wpc[s] = "unborn"

\* C26: standalone db tracking.  After a snapshot object (String, List, Set,
\* SortedSet, Hash, Stream) was handled in standalone mode the tracked db is
\* the object's db, and what was enqueued for it is its primary request, alone
\* or with a select of its db immediately before.
DbTrackedForEveryObject ==
    (mode = "standalone" /\ lastEvent.src = "RDB"
        /\ lastEvent.verb \in PlainTypes \cup {"Stream"}) =>
        LET cmds == DeltaCmds(0)
        IN  /\ db = lastEvent.db
            /\ Len(cmds) \in {1, 2}
            /\ cmds[Len(cmds)].verb # "select"
            /\ Len(cmds) = 2 => cmds[1] = Cmd("select", <<lastEvent.db>>)

\* C26 for the objects handle_rdb has an arm for.  Handling a String, List,
\* Set, SortedSet or Hash object whose db differs from the tracked db enqueues a select of that
\* db and, immediately after it, the object's request, and the tracked db
\* becomes that db; when the db equals the tracked db the request is enqueued
\* alone.  Any other snapshot object enqueues nothing and leaves the tracked
\* db as it was.
StandaloneDbTracking ==
    [][(mode = "standalone" /\ repl_offset' = repl_offset + 1
            /\ lastEvent'.src = "RDB") =>
        LET e == lastEvent'
            cmds == DeltaCmds(0)'
        IN  IF e.verb \in PlainTypes
            THEN IF e.db # db
                 THEN /\ Len(cmds) = 2
                      /\ cmds[1] = Cmd("select", <<e.db>>)
                      /\ cmds[2].verb # "select"
                      /\ cmds[2].args[1] = e.keys[1]
                      /\ db' = e.db
                 ELSE /\ Len(cmds) = 1
                      /\ cmds[1].verb # "select"
                      /\ cmds[1].args[1] = e.keys[1]
                      /\ db' = db
            ELSE /\ cmds = <<>>
                 /\ db' = db]_vars

\* C26, the same case reached: the second of two objects of db 1 was enqueued without a
\* select, after the first had been enqueued behind a select.
DbTrackingWitness ==
    /\ mode = "standalone"
    /\ repl_offset = 2
    /\ lastEvent.src = "RDB"
    /\ lastEvent.verb = "Hash"
    /\ lastEvent.db = "1"
    /\ db = "1"
    /\ Len(DeltaCmds(0)) = 1
    /\ Len(sent[0]) = 3
    /\ sent[0][1].cmd = Cmd("select", <<"1">>)

\* The expire requests among what the last event put on the channel of shard
\* s, and the property of C27 for the modes ms.
ExpireAt(s, verb) ==
    {i \in 1..Len(Delta(s)) : Delta(s)[i].cmd.verb = verb}
ExpiryFollows(ms) ==
    (mode \in ms /\ lastEvent.src = "RDB"
        /\ lastEvent.verb \in PlainTypes \cup {"Stream"}) =>
        LET e == lastEvent
            want == IF e.opt = "S" THEN "EXPIREAT"
                    ELSE IF e.opt = "MS" THEN "PEXPIREAT" ELSE ""
            other == IF e.opt = "S" THEN "PEXPIREAT" ELSE "EXPIREAT"
        IN  /\ \A s \in Active : ExpireAt(s, other) = {}
            /\ IF want = ""
               THEN \A s \in Active : ExpireAt(s, "EXPIREAT") = {}
               ELSE \E s \in Active :
                      /\ ExpireAt(s, want) = {Len(Delta(s))}
                      /\ Len(Delta(s)) >= 2
                      /\ Delta(s)[Len(Delta(s))].cmd.args = <<e.keys[1], e.vals[2]>>
                      /\ \A r \in Active \ {s} : ExpireAt(r, want) = {}

\* C27: expiry auxiliary.  In every mode, a snapshot object with an expiry in
\* seconds yields exactly one EXPIREAT key t, one with an expiry in
\* milliseconds exactly one PEXPIREAT key t, enqueued after the object's own
\* request(s); an object without expiry yields no expire request.
ExpiryAuxiliary == ExpiryFollows({"sharding", "cluster", "standalone"})

\* C27 in sharded mode alone.
ExpiryAuxiliarySharded == ExpiryFollows({"sharding"})

\* The number of places of a sequence that hold x.
Occurrences(seq, x) == Cardinality({i \in 1..Len(seq) : seq[i] = x})
\* The verbs a mode drops or expands.
NotOneToOne ==
    IF mode = "standalone" THEN {}
    ELSE DroppedVerbs \cup ExpandKeyVerbs \cup ExpandPairVerbs \cup BroadcastVerbs
\* The property of C28 for the commands that are not among `except'.
MappedOneToOne(except) ==
    (lastEvent.src = "AOF" /\ lastEvent.verb \notin (NotOneToOne \cup except)) =>
        LET e == lastEvent
            fields == e.keys \o e.vals
        IN  \E s \in Active :
              /\ Len(Delta(s)) = 1
              /\ \A r \in Active \ {s} : Delta(r) = <<>>
              /\ LET c == Delta(s)[1].cmd
                 IN  /\ c.verb = e.verb
                     /\ \A i \in 1..Len(fields) :
                           Occurrences(c.args, fields[i]) = Occurrences(fields, fields[i])
                     /\ Len(c.args) = Len(fields)
                     /\ Len(e.keys) = 1 => c.args[1] = e.keys[1]

\* C28: mutation mapping.  A command that is neither dropped nor expanded
\* yields exactly one request, with the command's verb and with every field
\* of the command exactly once among its arguments; the request of a
\* single-key command has the key as its first argument.
MutationMapping == MappedOneToOne({})

\* C28 for every command but PEXPIRE, PEXPIREAT and ZUNIONSTORE.
MutationMappingOthers == MappedOneToOne({"PEXPIRE", "PEXPIREAT", "ZUNIONSTORE"})

\* One sequence is the beginning of another.
IsPrefix(a, b) == Len(a) <= Len(b) /\ SubSeq(b, 1, Len(a)) = a

\* C29: connection acquisition failure.  A pass over lines 71-91 in which the
\* flush is due and pool.get() fails executes nothing and leaves the batch,
\* the count and the timer as they were; until the next pass that acquires a
\* connection the batch only grows at its end, and that pass submits exactly
\* the batch as it then is.
AcquireFailureKeepsBatch ==
    [][\A w \in Active :
        LET flushStep == wpc[w] = "check" /\ wpc'[w] # "check"
        IN  /\ (flushStep /\ lastFlush'[w] = "acquire_err") =>
                  /\ pipeline'[w] = pipeline[w]
                  /\ count'[w] = count[w]
                  /\ elapsed'[w] = elapsed[w]
                  /\ flushed'[w] = flushed[w]
            /\ (lastFlush[w] = "acquire_err" /\ ~flushStep) =>
                  /\ IsPrefix(pipeline[w], pipeline'[w])
                  /\ flushed'[w] = flushed[w]
            /\ (lastFlush[w] = "acquire_err" /\ flushStep
                    /\ lastFlush'[w] \in {"ok", "query_err"}) =>
                  /\ Len(flushed'[w]) = Len(flushed[w]) + 1
                  /\ flushed'[w][Len(flushed'[w])].batch = pipeline[w]
                  /\ Len(pipeline[w]) = count[w]]_vars

\* C29 witness: with a flush interval of 0 a pipeline of two requests was
\* submitted, the first of which had been kept over a failed acquisition.
AcquireFailureWitness ==
    /\ mode = "sharding"
    /\ flush_interval = 0
    /\ batch_size = DefaultBatchSize
    /\ lastFlush[0] = "ok"
    /\ \E i \in 1..Len(flushed[0]) :
          /\ Len(flushed[0][i].batch) = 2
          /\ flushed[0][i].batch[1].n = 1
          /\ flushed[0][i].batch[2].n = 2

\* --------------------------------------------------------------- SpecPool
\* One pooled worker and its connection: requests and literal SELECTs arrive,
\* the worker batches and flushes, and the connection may break between two
\* flushes.
PoolEvents ==
    {Ev("AOF", "SET", <<"k1">>, <<"v">>, ""), Ev("AOF", "SELECT", <<>>, <<"1">>, "")}

InitPool ==
    /\ InitRun
    /\ InitSharded({1}, {[present |-> FALSE, ok |-> FALSE, size |-> 0]},
                   FlushIntervals, OneHash, {[k \in Keys |-> 0]})

PumpPool == \E e \in PoolEvents : repl_offset < MaxDispatched /\ Handle(e)

NextPool ==
    \/ PumpPool
    \/ \E w \in ShardIds : WorkerRecv(w)
    \/ \E w \in ShardIds : WorkerFlush(w)
    \/ \E w \in ShardIds : ConnBreaks(w)

SpecPool == InitPool /\ [][NextPool]_vars

\* C30: acquisition hook.  Every pipeline the worker executed was preceded,
\* within the pool.get() of the same pass, by a SELECT of the db-intent value
\* read in that call; and an acquisition that failed executed no pipeline.
SelectOnEveryAcquire ==
    \A w \in Active :
        /\ lastFlush[w] \in {"ok", "query_err"} =>
              /\ lastAcq[w].how = "established"
              /\ lastAcq[w].select = intent[w]
        /\ lastAcq[w].how = "failed" => lastFlush[w] = "acquire_err"

\* What holds instead: the SELECT of on_acquire is issued when the pool's
\* connection is established, with the db-intent value read then; a pipeline
\* executed on a connection the pool already held has no SELECT before it, and
\* a failed acquisition executes nothing.
SelectOnEstablish ==
    [][\A w \in Active :
        LET flushStep == wpc[w] = "check" /\ wpc'[w] # "check"
            executed == Len(flushed'[w]) = Len(flushed[w]) + 1
        IN  /\ (flushStep /\ executed /\ conn[w].up) =>
                  lastAcq'[w] = Acq("reused", "none")
            /\ (flushStep /\ executed /\ ~conn[w].up) =>
                  lastAcq'[w] = Acq("established", intent[w])
            /\ (flushStep /\ lastAcq'[w].how = "failed") =>
                  (~executed /\ ~conn'[w].up)]_vars

\* A pipeline was executed on a connection that has db 1 selected, by a
\* literal SELECT of an earlier pipeline, while the db-intent is 0.
ReusedOnOtherDb ==
    /\ mode = "sharding"
    /\ lastFlush[0] = "ok"
    /\ lastAcq[0].how = "reused"
    /\ Len(flushed[0]) = 2
    /\ flushed[0][1].batch[1].cmd.verb = "SELECT"
    /\ flushed[0][1].ok
    /\ flushed[0][2].batch[1].cmd.verb = "SET"
    /\ conn[0].sel = "1"
    /\ intent[0] = "0"

\* --------------------------------------------------------------- SpecSwap
\* One pooled worker whose channel carries requests and SwapDb messages.
SwapEvents == {Ev("AOF", "SET", <<"k1">>, <<"v">>, "")}

PumpSwap == \E e \in SwapEvents : repl_offset < MaxDispatched /\ Handle(e)

NextSwap ==
    \/ PumpSwap
    \/ \E w \in ShardIds : SendSwapDb(w)
    \/ \E w \in ShardIds : WorkerRecv(w)
    \/ \E w \in ShardIds : WorkerFlush(w)
    \/ \E w \in ShardIds : ConnBreaks(w)

SpecSwap == InitPool /\ [][NextSwap]_vars

\* C31: receiving SwapDb(d) sets the worker's db-intent to d and nothing else:
\* the batch, the count, the shutdown flag, the executed pipelines and the
\* connection are as before and the timer is not restarted; the flush step of
\* that pass executes the batch only when the flush condition of line 72 holds.
SwapDbOnlySetsIntent ==
    [][\A w \in Active :
        /\ (wpc[w] = "recv" /\ wpc'[w] = "check" /\ lastRecv'[w] = "SwapDb") =>
              /\ intent'[w] = Head(chan[w]).db
              /\ pipeline'[w] = pipeline[w]
              /\ count'[w] = count[w]
              /\ shutdown'[w] = shutdown[w]
              /\ flushed'[w] = flushed[w]
              /\ conn'[w] = conn[w]
              /\ elapsed'[w] >= elapsed[w]
        /\ (wpc[w] = "check" /\ wpc'[w] # "check" /\ lastRecv[w] = "SwapDb"
                /\ flushed'[w] # flushed[w]) =>
              /\ elapsed[w] >= flush_interval \/ shutdown[w]
              /\ count[w] > 0]_vars

\* C31 witness: SwapDb(1) was received while one request was batched and the
\* interval had not elapsed; the pass ended without a flush.
SwapDbWitness ==
    /\ mode = "sharding"
    /\ flush_interval = 2
    /\ lastRecv[0] = "SwapDb"
    /\ intent[0] = "1"
    /\ wpc[0] = "recv"
    /\ lastFlush[0] = "none"
    /\ count[0] = 1
    /\ Len(pipeline[0]) = 1
    /\ flushed[0] = <<>>

\* The positions of run() after its restart loop.
AfterLoop == {"stopped", "saved", "dropped", "returned", "aborted", "unwinding",
              "exited", "rejected"}

\* C32: supervisor restart loop.  listener.start() is entered only from the
\* loop condition and only with the control flag set; at the loop condition,
\* also after an error and its two seconds, it is entered if and only if the
\* flag is set; a start() that returned Ok or a NOPERM error leaves the loop,
\* and once the loop is left the client is never started again.
RestartLoop ==
    [][/\ (spc' = "pump" /\ spc # "pump") => (spc = "loop" /\ running)
       /\ (spc = "loop" /\ spc' # "loop") =>
              /\ running => spc' = "pump"
              /\ ~running => spc' = "stopped"
       /\ (spc = "pump" /\ spc' # "pump") => spc' \in {"loop", "stopped", "aborted"}
       /\ spc \in AfterLoop => spc' \in AfterLoop]_vars

\* C32 witness: start() returned an error after an event was handled, and
\* Ctrl-C arrived during the two seconds: the loop is at its condition with
\* the flag cleared.
RestartWitness ==
    /\ spc = "loop"
    /\ lastEvent # NoEvent
    /\ ~running
    /\ lastErr = "none"

\* ----------------------------------------------------------- SpecAffinity
\* The sharded dispatcher alone with two shards: hash 0 belongs to shard 0,
\* hash 1 to shard 1 and hash 2 lies above every entry of the ring.  It is
\* handed snapshot objects and single-key commands on k1 and k2 under every
\* hash of the byte strings it may route by.
AffinitySnapshots ==
    {Ev("RDB", "String", <<k>>, <<"v1", "1000">>, x) : k \in Keys, x \in {"", "S", "MS"}}
    \cup {Ev("RDB", "Hash", <<"k2">>, <<"v1", "1000">>, "S")}
    \cup {Stream("k1", "v1", "1000", x, <<"1-0", "2-0">>, <<"g1">>) : x \in {"", "MS"}}
    \cup {Stream("k2", "v1", "1000", "S", <<>>, <<>>)}

AffinityEvents == AffinitySnapshots

AffinityHashes == [RoutedArgs -> 0..2]

InitAffinity ==
    /\ InitRun
    /\ InitSharded({2}, {[present |-> FALSE, ok |-> FALSE, size |-> 0]}, {2},
                   FanoutHash, AffinityHashes)

RouteAffinity == \E e \in AffinityEvents : repl_offset < MaxSnapshot /\ Handle(e)

NextAffinity == RouteAffinity

SpecAffinity == InitAffinity /\ [][NextAffinity]_vars

\* The shard the routing table selects for key k: the owner of the first
\* entry at or above its hash, the first sender when there is none.
ShardOfKey(k) == IF GetShard(k) = NoShard THEN FirstSender ELSE GetShard(k)

\* The primary requests a snapshot object is written with.
PrimaryCount(e) ==
    IF e.verb = "Stream" THEN Len(e.entries) + Len(e.groups) ELSE 1

\* C33: in sharded mode the expiry auxiliary of a snapshot object, of a plain
\* type or a Stream, is enqueued on the shard the routing table selects for
\* the object's key, where all the object's primary requests are, and behind
\* them; no other shard receives anything.
ExpiryRoutedWithKey ==
    (mode = "sharding" /\ lastEvent.src = "RDB" /\ lastEvent.opt \in {"S", "MS"}
        /\ lastEvent.verb \in PlainTypes \cup {"Stream"}) =>
        LET e == lastEvent
            k == e.keys[1]
            s == ShardOfKey(k)
            d == Delta(s)
            want == IF e.opt = "S" THEN "EXPIREAT" ELSE "PEXPIREAT"
        IN  /\ \A r \in Active \ {s} : Delta(r) = <<>>
            /\ Len(d) = PrimaryCount(e) + 1
            /\ d[Len(d)].cmd = Cmd(want, <<k, e.vals[2]>>)
            /\ \A i \in 1..(Len(d) - 1) :
                  /\ d[i].cmd.verb \notin {"EXPIREAT", "PEXPIREAT"}
                  /\ k \in {d[i].cmd.args[j] : j \in 1..Len(d[i].cmd.args)}

\* C33 witness: a Stream object of k1 with two entries, a group and an expiry
\* went to shard 1 while the time of its expiry hashes to shard 0.
ExpiryRoutedWitness ==
    /\ mode = "sharding"
    /\ lastEvent.verb = "Stream"
    /\ lastEvent.opt = "MS"
    /\ GetShard("k1") = 1
    /\ GetShard("1000") = 0
    /\ Len(Delta(1)) = 4
    /\ Delta(1)[4].cmd.verb = "PEXPIREAT"
    /\ Delta(0) = <<>>

\* ---------------------------------------------------------- SpecTerminate
\* One pooled worker under the supervisor, from start to shutdown, with a
\* flush interval of 0 and batch sizes 1, 2, unbounded (-p 0) and the default
\* (no -p).
\* The worker's thread keeps running: each step of its loop is taken when it
\* stays possible.  Nothing is assumed about the target: pool.get() may fail
\* every time.
TerminateArgs ==
    {[present |-> TRUE, ok |-> TRUE, size |-> z] : z \in {0, 1, 2}}
        \cup {[present |-> FALSE, ok |-> FALSE, size |-> 0]}

InitTerminate ==
    /\ InitRun
    /\ InitSharded({1}, TerminateArgs, {0}, OneHash, {[k \in Keys |-> 0]})

PumpTerminate == \E e \in WorkerEvents : repl_offset < MaxDispatched /\ Handle(e)

NextTerminate ==
    \/ PumpTerminate
    \/ StopPump
    \/ SaveWritten
    \/ DropSendTerminate
    \/ DropJoin
    \/ \E w \in ShardIds : WorkerRecv(w)
    \/ \E w \in ShardIds : WorkerFlush(w)

WorkerRuns ==
    \A w \in ShardIds : WF_vars(WorkerRecv(w)) /\ WF_vars(WorkerFlush(w))

SpecTerminate == InitTerminate /\ [][NextTerminate]_vars /\ WorkerRuns /\ WF_vars(DropJoin)

\* The flush step of a pass in which pool.get() returned a connection.
FlushAcquired(w) == WorkerFlush(w) /\ flushed'[w] # flushed[w]

\* The same with a target that is reachable again and again.
SpecTerminateReachable ==
    SpecTerminate /\ \A w \in ShardIds : SF_vars(FlushAcquired(w))

\* Terminate is on the worker's channel.
TerminateSent(w) == \E i \in 1..Len(chan[w]) : chan[w][i].type = "Terminate"

\* C34: worker termination.  Once Terminate is on the worker's channel the
\* worker eventually receives it and leaves its loop, and the join of the
\* dispatcher's drop returns, whatever the batch size, also when the batch is
\* full and when connection acquisition keeps failing.
WorkerTerminates ==
    /\ TerminateSent(0) ~> (wpc[0] = "done")
    /\ (spc = "dropped") ~> (spc = "returned")

\* What holds: the same when pool.get() succeeds again and again.
WorkerTerminatesReachable == TerminateSent(0) ~> (spc = "returned")

\* The state the worker cannot leave while acquisition fails: Terminate is
\* queued, the batch is full, so that recv_timeout is not called, and the
\* last pool.get() failed.
FullBatchBlocksTerminate ==
    /\ TerminateSent(0)
    /\ batch_size > 0
    /\ count[0] = batch_size
    /\ lastFlush[0] = "acquire_err"
    /\ wpc[0] = "recv"

\* ---------------------------------------------------------- batch database
\* new_worker, line 75: the db in which the i-th request of the batch executes
\* on the connection pool.get() hands out at this flush.
RunsInDb(w, i) == SelAfter(ConnAcquired(w).sel, SubSeq(pipeline[w], 1, i - 1))

\* This step executes the worker's batch.
Executes(w) == flushed'[w] # flushed[w]

AppliedNow(w) == flushed'[w][Len(flushed'[w])].applied

\* C35: database consistency of a batch.  Every request executes with the
\* connection's selected db equal to the worker's db-intent at the moment the
\* worker received the request; a SwapDb received between the batching and
\* the flush does not change the db the request executes in.
BatchRunsInReceivedDb ==
    [][\A w \in Active :
        Executes(w) => \A i \in 1..AppliedNow(w) : RunsInDb(w, i) = recvDb[w][i]]_vars

\* The second half of C35 alone, on a connection established during
\* pool.get(): a request batched under one db-intent and flushed after a
\* SwapDb to another executes in the db of its receipt.
SwapDbKeepsBatchDb ==
    [][\A w \in Active :
        (Executes(w) /\ ~conn[w].up) =>
            \A i \in 1..AppliedNow(w) : RunsInDb(w, i) = recvDb[w][i]]_vars

\* What holds: every request of a batch executes in the db the connection had
\* selected when pool.get() handed it out (the events of SpecSwap hold no
\* literal SELECT), which is the db-intent of the time the connection was
\* established, whatever the db-intent was when the request was received.
BatchRunsInConnectionDb ==
    [][\A w \in Active :
        Executes(w) =>
            /\ \A i \in 1..AppliedNow(w) : RunsInDb(w, i) = ConnAcquired(w).sel
            /\ ~conn[w].up => ConnAcquired(w).sel = intent[w]
            /\ conn[w].up => conn'[w].sel = conn[w].sel]_vars

\* ------------------------------------------------------------ SpecTracked
\* The standalone dispatcher alone, handed snapshot objects in two dbs and
\* commands of the replication stream, upstream SELECTs among them.
TrackedEvents ==
    {InDb(Ev("RDB", t, <<"k1">>, <<"v1", "100">>, ""), d) :
        t \in {"String", "Hash"}, d \in Dbs}
    \cup {Ev("AOF", "SELECT", <<>>, <<d>>, "") : d \in Dbs}
    \cup {Ev("AOF", "SET", <<"k1">>, <<"v">>, "")}

InitTracked == InitRun /\ InitStandalone

RouteTracked == \E e \in TrackedEvents : Handle(e)

NextTracked == RouteTracked

SpecTracked == InitTracked /\ [][NextTracked]_vars

\* The db named by the last request of ms whose verb is one of verbs; none
\* when there is no such request.
RECURSIVE LastSelect(_, _, _)
LastSelect(ms, verbs, none) ==
    IF ms = <<>> THEN none
    ELSE LET m == ms[Len(ms)]
         IN  IF m.type = "Cmd" /\ m.cmd.verb \in verbs
             THEN m.cmd.args[1]
             ELSE LastSelect(SubSeq(ms, 1, Len(ms) - 1), verbs, none)

\* C36: the standalone dispatcher's tracked db is the db named by the most
\* recent SELECT request it enqueued, from a snapshot db change ("select") or
\* from an upstream SELECT command ("SELECT").
TrackedDbIsLastSelect ==
    mode = "standalone" => db = LastSelect(sent[0], {"select", "SELECT"}, "-1")

\* The consequence C36 draws: the primary request of the snapshot object
\* handled last is enqueued behind a SELECT of the object's own db.
SnapshotRunsInOwnDb ==
    (mode = "standalone" /\ lastEvent.src = "RDB" /\ lastEvent.verb \in PlainTypes
        /\ Len(sent[0]) > before[0]) =>
        LastSelect(SubSeq(sent[0], 1, Len(sent[0]) - 1),
                   {"select", "SELECT"}, "-1") = lastEvent.db

\* What holds: the tracked db is the db named by the most recent SELECT that
\* handle_rdb enqueued; an upstream SELECT is forwarded and not tracked.
TrackedDbIsLastSnapshotSelect ==
    mode = "standalone" => db = LastSelect(sent[0], {"select"}, "-1")

\* An upstream SELECT 1 was forwarded after a snapshot object of db 0.
UpstreamSelectForwarded ==
    /\ mode = "standalone"
    /\ db = "0"
    /\ lastEvent.verb = "SELECT"
    /\ LastSelect(sent[0], {"select", "SELECT"}, "-1") = "1"

\* ------------------------------------------------------------- SpecOpaque
\* The sharded dispatcher alone, two targets, every worker channel open,
\* handed snapshot objects, commands of each kind of arm, and opaque commands
\* (Command::Other: opt is the name, vals the arguments).
OpaqueEvents ==
    {Ev("RDB", "String", <<"k1">>, <<"v1", "100">>, "S"),
     Ev("AOF", "SET", <<"k2">>, <<"v1">>, ""),
     Ev("AOF", "DEL", <<"k1", "k2">>, <<>>, ""),
     Ev("AOF", "SELECT", <<>>, <<"1">>, ""),
     Ev("AOF", "MULTI", <<>>, <<>>, ""),
     Ev("AOF", "Other", <<>>, <<"k1">>, "TOUCH"),
     Ev("AOF", "Other", <<>>, <<>>, "NOOP")}

InitOpaque ==
    /\ InitRun
    /\ InitSharded({2}, {[present |-> FALSE, ok |-> FALSE, size |-> 0]}, {2},
                   FanoutHash, AffinityHashes)

RouteOpaque == \E e \in OpaqueEvents : Handle(e)

NextOpaque == RouteOpaque

SpecOpaque == InitOpaque /\ [][NextOpaque]_vars

ChannelsOpen == \A s \in Active : ~Closed(s)

\* C37: in sharded mode, while every worker channel is open, handling an
\* event never aborts the dispatcher: a routing key is found or the event is
\* dropped, also for an opaque command with an empty argument list.
ShardedNeverAborts == (mode = "sharding" /\ ChannelsOpen) => spc # "aborted"

\* What holds: the dispatcher aborts with open channels only on a request
\* without arguments handed to execute with no key.
AbortsOnlyWithoutArgs ==
    (mode = "sharding" /\ ChannelsOpen /\ spc = "aborted") =>
        (lastEvent.verb = "Other" /\ lastEvent.vals = <<>>)

\* An opaque command with an argument was routed by it.
OpaqueRouted ==
    /\ spc = "pump"
    /\ lastEvent.verb = "Other"
    /\ lastEvent.vals = <<"k1">>
    /\ DeltaCmds(ShardOfKey("k1")) = <<Cmd("TOUCH", <<"k1">>)>>

\* -------------------------------------------------------------- SpecKeyed
\* The sharded dispatcher alone, two targets, handed the snapshot objects of
\* SpecAffinity and single-key commands on the same keys.
KeyedCommands ==
    {Ev("AOF", "SET", <<k>>, <<"v1">>, "") : k \in Keys}
    \cup {Ev("AOF", v, <<k>>, <<"1000">>, "") :
              v \in {"EXPIRE", "PEXPIRE", "PEXPIREAT"}, k \in Keys}
    \cup {Ev("AOF", "XGROUP", <<k>>, <<"g1", "0-1">>, sub) :
              k \in Keys, sub \in {"CREATE", "SETID", "DESTROY", "DELCONSUMER"}}

KeyedEvents == AffinitySnapshots \cup KeyedCommands

RouteKeyed == \E e \in KeyedEvents : repl_offset < MaxSnapshot /\ Handle(e)

NextKeyed == RouteKeyed

SpecKeyed == InitAffinity /\ [][NextKeyed]_vars

\* Every request of the event handled last went to the shard of its key.
OnShardOfKey ==
    LET s == ShardOfKey(lastEvent.keys[1])
    IN  /\ Delta(s) # <<>>
        /\ \A r \in Active \ {s} : Delta(r) = <<>>

\* C38: key affinity in sharded mode.  All requests of an event on a single
\* key K (a snapshot object's primary requests and expiry auxiliary, SET,
\* EXPIRE, PEXPIRE, PEXPIREAT, the XGROUP subcommands) are enqueued on the
\* shard the routing table selects for K.
KeyAffinity ==
    (mode = "sharding" /\ spc = "pump" /\ lastEvent \in KeyedEvents) => OnShardOfKey

\* What holds: the same for every event but PEXPIRE and PEXPIREAT, whose
\* requests go to the shard of their time argument.
KeyAffinityButPExpire ==
    (mode = "sharding" /\ spc = "pump" /\ lastEvent \in KeyedEvents) =>
        IF lastEvent.src = "AOF" /\ lastEvent.verb \in {"PEXPIRE", "PEXPIREAT"}
        THEN /\ Delta(ShardOfKey(lastEvent.vals[1])) # <<>>
             /\ \A r \in Active \ {ShardOfKey(lastEvent.vals[1])} : Delta(r) = <<>>
        ELSE OnShardOfKey

\* XGROUP SETID on k2 went to the shard of k2 while k1 is on the other shard.
XGroupOnShardOfKey ==
    /\ lastEvent.verb = "XGROUP"
    /\ lastEvent.opt = "SETID"
    /\ lastEvent.keys = <<"k2">>
    /\ GetShard("k2") = 1
    /\ GetShard("k1") = 0
    /\ Len(Delta(1)) = 1
    /\ Delta(0) = <<>>

\* --------------------------------------------------------------- SpecDrop
\* Two pooled workers or the cluster worker under the supervisor, from the
\* pump to the end of the drop, on both ways into the drop: run() returning
\* after the save, and a panic of the dispatcher unwinding it.  Workers may
\* die before their loop.
InitDrop == InitAbort

PumpDrop == \E e \in AbortEvents : repl_offset < MaxFanout /\ Handle(e)

NextDrop ==
    \/ PumpDrop
    \/ StopPump
    \/ SaveWritten
    \/ DropSendTerminate
    \/ DropJoin
    \/ \E w \in ShardIds : WorkerPanics(w)
    \/ \E w \in ShardIds : WorkerRecv(w)
    \/ \E w \in ShardIds : WorkerFlush(w)
    \/ \E w \in ShardIds : ClusterWorker(w)

SpecDrop == InitDrop /\ [][NextDrop]_vars

\* The number of Terminate messages among ms.
RECURSIVE Terminates(_)
Terminates(ms) ==
    IF ms = <<>> THEN 0
    ELSE (IF Head(ms).type = "Terminate" THEN 1 ELSE 0) + Terminates(Tail(ms))

\* A channel holds at most one Terminate, and as its last message.
TerminateAtEnd(ms) ==
    /\ Terminates(ms) <= 1
    /\ Terminates(ms) = 1 => ms[Len(ms)].type = "Terminate"

\* The positions of run() from the first loop of the drop on.
InDrop == {"dropped", "unwinding", "returned", "exited"}

\* C39: Terminate is the last message on every channel.  The dispatcher sends
\* one Terminate to each worker, in its drop, which comes after the pump has
\* stopped delivering events (run() returning after the save, or a panic
\* unwinding); nothing is enqueued on a channel after its Terminate; and
\* every worker has been sent Terminate before any worker is joined.
TerminateLast ==
    [][/\ (spc \notin InDrop /\ spc' \in InDrop) =>
              /\ spc \in {"saved", "aborted"}
              /\ spc' \in {"dropped", "unwinding"}
              /\ \A s \in Active : chan'[s] = Append(chan[s], MsgTerminate)
       /\ (spc \notin InDrop /\ spc' \notin InDrop) =>
              \A s \in Active : Terminates(chan'[s]) = 0
       /\ spc \in InDrop =>
              /\ spc' \in InDrop
              /\ \A s \in Active :
                    \/ chan'[s] = chan[s]
                    \/ chan[s] # <<>> /\ chan'[s] = Tail(chan[s])
       /\ (spc' \in {"returned", "exited"} /\ spc' # spc) =>
              spc \in {"dropped", "unwinding"}
       /\ \A s \in Active : TerminateAtEnd(chan'[s])]_vars

\* C39 witness: two shards; both were sent requests and then Terminate, both
\* received it and ended, and the join returned.
TerminateLastWitness ==
    /\ mode = "sharding"
    /\ targets = 2
    /\ spc = "returned"
    /\ \A s \in Active :
          /\ sent[s] # <<>>
          /\ lastRecv[s] = "Terminate"
          /\ wpc[s] = "done"
          /\ chan[s] = <<>>

\* The drop during unwinding: Terminate is queued behind the requests of a
\* shard that is alive while the other shard's channel is closed.
TerminateWhileUnwinding ==
    /\ mode = "sharding"
    /\ spc = "unwinding"
    /\ \E s \in Active :
          /\ ~Closed(s)
          /\ Len(chan[s]) > 1
          /\ chan[s][Len(chan[s])].type = "Terminate"

====
